---- MODULE Spec2Model ----
(***************************************************************************)
(* Southbridge Transcriber: the chunked-transcription pipeline.            *)
(*                                                                         *)
(*   SpecPlan  the time-window planner (splitAudioToDir / splitAudio)      *)
(*             called on its own, over small ranges of its parameters      *)
(*   Spec      one run of the command: planning, then the transcription    *)
(*             loop over the windows (cache, attempts, model fallback,     *)
(*             validation, speaker normalization, assembly, ledger)        *)
(*   FairSpec  Spec with weak fairness of the run's steps: the run is one  *)
(*             sequential thread, and every call to the media toolkit or   *)
(*             the completion service is assumed to return                 *)
(*   SpecContext  the run from its first phase on: content analysis       *)
(*             (image analysis, audio analysis, merge) around the split,   *)
(*             then the transcription loop of Spec; Spec itself starts     *)
(*             from an audio-only run whose analysis answered              *)
(*   SpecUnit  validateTranscript, buildSpeakerNormalizationMap and        *)
(*             normalizeTranscriptSpeakers called on their own             *)
(*   SpecUpload  uploadMedia called on its own against a file service      *)
(*             whose reports are drawn from small sets                     *)
(*                                                                         *)
(* Times are whole seconds. A timestamp string "MM:SS" or "HH:MM:SS" is    *)
(* the sequence of the numbers between its colons. A segment is a record   *)
(* whose domain holds the fields the JSON object has.                      *)
(***************************************************************************)
EXTENDS Integers, Sequences, FiniteSets, TLC

VARIABLES
    \* ---- splitAudioToDir ----
    duration,         \* ffprobe's duration of the recording
    chunkDuration,    \* parameter chunkDuration (seconds)
    overlapDuration,  \* parameter overlapDuration (seconds)
    splitPc,          \* position in splitAudioToDir: "start", "loop", "done"
    splitI,           \* the loop variable i of splitAudioToDir
    splitChunks,      \* the local array chunks (the value returned at "done")
    audioDir,         \* chunk files in the audio directory: records [index, startTime, endTime]
    \* ---- run: options ----
    validationRetries,   \* const validationRetries
    enableTimingCheck,   \* const enableTimingCheck
    force,               \* options.force
    preferredModel,      \* GeminiClient.preferredModel ("" is null)
    answers,             \* the transcripts the completion service may answer
                         \* with in the run under check
    \* ---- run: content analysis (phase 1) ----
    ctxPc,               \* position in phase 1: "start", "images", "split",
                         \* "audio", "merge", "done"
    isVideo,             \* const isVideo
    imageDescription,    \* let imageDescription
    audioDescription,    \* let audioDescription
    finalDescription,    \* let finalDescription
    \* ---- a function of the validator called on its own ----
    unitCall,            \* the function's name and its arguments
    unitResult,          \* the values returned so far
    \* ---- run: control ----
    pc,                  \* position in run
    chunks,              \* const chunks, the plan returned by splitAudioToDir
    i,                   \* the loop variable i over chunks
    attempt,             \* the loop variable attempt
    modelIdx,            \* position of transcribeWithContext in modelsToTry
                         \* (1-based; 0 outside a call)
    callLog,             \* requests the completion service saw in the call of
                         \* transcribeWithContext in progress or just ended
    thrown,              \* the message of the error in flight to the catch block
    chunkData,           \* let chunkData
    validationPassed,    \* let validationPassed
    \* ---- run: state carried across windows ----
    previousTranscription,
    transcriptionContent,
    chunkTranscriptions,
    fullTranscript,
    transcriptionProgress,
    knownSpeakers,
    \* ---- files ----
    cacheFiles,          \* chunk_<i>_raw.json: records [index, readable, data]
    progressFile,        \* transcription_progress.json
    transcriptionFile,   \* <input>_transcription.md: [marker, body, inProgressNote]
    \* ---- the run's outcome and the model's budget ----
    exitCode,            \* -1 while running, then the process's exit code
    faults               \* attempts that ended in a thrown error so far

planVars == <<duration, chunkDuration, overlapDuration, splitPc, splitI, splitChunks, audioDir>>
ctxVars == <<ctxPc, isVideo, imageDescription, audioDescription, finalDescription>>
unitVars == <<unitCall, unitResult>>
\* what no step of the transcription loop changes: the options, the description
\* and the stand-alone calls
optVars == <<validationRetries, enableTimingCheck, force, preferredModel, answers,
             ctxVars, unitVars>>
ctlVars == <<pc, chunks, i, attempt, modelIdx, callLog, thrown, chunkData, validationPassed>>
memVars == <<previousTranscription, transcriptionContent, chunkTranscriptions,
             fullTranscript, transcriptionProgress, knownSpeakers>>
diskVars == <<cacheFiles, progressFile, transcriptionFile>>
runVars == <<optVars, ctlVars, memVars, diskVars, exitCode, faults>>

vars == <<planVars, runVars>>

(***************************************************************************)
(* Bounds of the model.                                                    *)
(***************************************************************************)
MaxDuration == 7      \* recordings of 0 .. MaxDuration seconds
MaxChunk == 4         \* chunkDuration in 1 .. MaxChunk
MaxOverlap == 4       \* overlapDuration in 0 .. MaxOverlap
MaxSplitIter == 5     \* cap on the iterations of a split loop that never ends
MaxFaults == 3        \* attempts that may end in a thrown error in one run

(***************************************************************************)
(* Program constants.                                                      *)
(***************************************************************************)
CHUNK_OVERLAP_SECONDS == 60

(***************************************************************************)
(* Sequences.                                                              *)
(***************************************************************************)
Min(a, b) == IF a <= b THEN a ELSE b

Range(sq) == {sq[k] : k \in DOMAIN sq}

RECURSIVE SelectNotIn(_, _)
\* sq.filter(x => !seen.includes(x)) with duplicates dropped, order kept
SelectNotIn(sq, seen) ==
    IF sq = <<>> THEN <<>>
    ELSE IF Head(sq) \in seen THEN SelectNotIn(Tail(sq), seen)
    ELSE <<Head(sq)>> \o SelectNotIn(Tail(sq), seen \cup {Head(sq)})

\* [...new Set(sq)]: the distinct elements in first-seen order
Unique(sq) == SelectNotIn(sq, {})

(***************************************************************************)
(* Timestamps: parseTime / formatTime of the run, parseTimestamp of the    *)
(* validator.                                                              *)
(***************************************************************************)
HasField(seg, f) == f \in DOMAIN seg

ParseParts(parts) ==
    IF Len(parts) = 2 THEN parts[1] * 60 + parts[2]
    ELSE IF Len(parts) = 3 THEN parts[1] * 3600 + parts[2] * 60 + parts[3]
    ELSE 0

\* parseTime(item.start): throws a TypeError when start is undefined
ParseTimeThrows(seg) == ~HasField(seg, "start")
ParseTime(seg) == ParseParts(seg.start)

\* parseTimestamp(entry.start): if (!timeStr) return 0
ParseTimestamp(seg) == IF HasField(seg, "start") THEN ParseParts(seg.start) ELSE 0

\* formatTime(totalSeconds): HH:MM:SS
FormatTime(totalSeconds) ==
    <<totalSeconds \div 3600, (totalSeconds % 3600) \div 60, totalSeconds % 60>>

(***************************************************************************)
(* validator.ts                                                            *)
(***************************************************************************)
\* genericPattern = /^(Speaker\s*\d+|Unknown|Person\s*\d+)$/i on the labels used here
GenericLabels == {"Speaker 1", "Speaker 2", "Unknown", "Person 1"}
IsGeneric(s) == s \in GenericLabels

SelectGeneric(sq) == SelectSeq(sq, LAMBDA x : IsGeneric(x))
SelectNamed(sq) == SelectSeq(sq, LAMBDA x : ~IsGeneric(x))

SetMax(S) == CHOOSE x \in S : \A y \in S : y <= x
SetMin(S) == CHOOSE x \in S : \A y \in S : x <= y

\* the largest difference between consecutive sorted timestamps
LargestGap(S) ==
    LET gaps == {b - a : <<a, b>> \in
                    {pr \in S \X S : pr[1] < pr[2]
                        /\ ~\E c \in S : pr[1] < c /\ c < pr[2]}}
    IN IF gaps = {} THEN 0 ELSE SetMax(gaps)

\* a severity that ignores strictTiming
IssueSeverityMutWarning(strictTiming) == "warning"
\* severity: fullConfig.strictTiming ? 'error' : 'warning'
IssueSeverity(strictTiming) == IF strictTiming THEN "error" ELSE "warning"

\* a verdict that takes any issue for an error
IsValidOfMutAnyIssue(issues) == issues = <<>>
\* const hasErrors = issues.some(i => i.severity === 'error'); isValid: !hasErrors
IsValidOf(issues) == ~\E k \in DOMAIN issues : issues[k].severity = "error"

\* validateTranscript(transcript, config); coverage is kept in hundredths of a percent
ValidateTranscript(transcript, expectedDuration, minCoveragePercent, maxGapSeconds, known, strictTiming) ==
    IF Len(transcript) = 0
    THEN [isValid |-> FALSE,
          issues |-> <<[type |-> "empty_transcript", severity |-> "error"]>>,
          stats |-> [entryCount |-> 0, coverage |-> 0, speakers |-> <<>>, largestGap |-> 0]]
    ELSE
    LET timestamps == {ParseTimestamp(transcript[k]) : k \in DOMAIN transcript}
        speakers == Unique([k \in DOMAIN transcript |-> transcript[k].speaker])
        firstTimestamp == SetMin(timestamps)
        lastTimestamp == SetMax(timestamps)
        transcriptSpan == lastTimestamp - firstTimestamp
        largestGap == LargestGap(timestamps)
        underflow ==
            IF expectedDuration > 0
               /\ transcriptSpan * 100 < minCoveragePercent * expectedDuration
            THEN <<[type |-> "timing_underflow", severity |-> IssueSeverity(strictTiming)]>>
            ELSE <<>>
        overflow ==
            IF lastTimestamp * 10 > expectedDuration * 11
            THEN <<[type |-> "timing_overflow", severity |-> "warning"]>>
            ELSE <<>>
        gap ==
            IF largestGap > maxGapSeconds
            THEN <<[type |-> "timing_gap", severity |-> "warning"]>>
            ELSE <<>>
        inconsistency ==
            IF Len(known) > 0 /\ Len(SelectNamed(known)) > 0
               /\ Len(SelectGeneric(speakers)) > 0
            THEN <<[type |-> "speaker_inconsistency", severity |-> "warning"]>>
            ELSE <<>>
        issues == underflow \o overflow \o gap \o inconsistency
    IN [isValid |-> IsValidOf(issues),
        issues |-> issues,
        stats |-> [entryCount |-> Len(transcript),
                   coverage |-> IF expectedDuration > 0
                                THEN (transcriptSpan * 10000) \div expectedDuration ELSE 0,
                   speakers |-> speakers,
                   largestGap |-> largestGap]]

HasIssue(vr, t) == \E k \in DOMAIN vr.issues : vr.issues[k].type = t

\* a map built from all of the known speakers, generic labels included
BuildSpeakerNormalizationMapMutAllKnown(currentSpeakers, known) ==
    LET genericCurrent == SelectGeneric(currentSpeakers)
        n == Min(Len(known), Len(genericCurrent))
    IN [g \in {genericCurrent[k] : k \in 1..n} |->
            known[SetMax({k \in 1..n : genericCurrent[k] = g})]]
\* buildSpeakerNormalizationMap(currentSpeakers, knownSpeakers): a function from
\* generic labels of the window to named known speakers, by position
BuildSpeakerNormalizationMap(currentSpeakers, known) ==
    LET namedKnown == SelectNamed(known)
        genericCurrent == SelectGeneric(currentSpeakers)
        n == Min(Len(namedKnown), Len(genericCurrent))
    IN [g \in {genericCurrent[k] : k \in 1..n} |->
            namedKnown[SetMax({k \in 1..n : genericCurrent[k] = g})]]

\* a relabelling that rebuilds each entry from speaker, start and text alone
NormalizeTranscriptSpeakersMutDropsEnd(transcript, speakerMap) ==
    [k \in DOMAIN transcript |->
        [speaker |-> IF transcript[k].speaker \in DOMAIN speakerMap
                     THEN speakerMap[transcript[k].speaker]
                     ELSE transcript[k].speaker,
         start |-> transcript[k].start,
         text |-> transcript[k].text]]
\* normalizeTranscriptSpeakers(transcript, speakerMap)
NormalizeTranscriptSpeakers(transcript, speakerMap) ==
    IF DOMAIN speakerMap = {} THEN transcript
    ELSE [k \in DOMAIN transcript |->
            IF transcript[k].speaker \in DOMAIN speakerMap
            THEN [transcript[k] EXCEPT !.speaker = speakerMap[transcript[k].speaker]]
            ELSE transcript[k]]

\* the .map of the run after normalizeTranscriptSpeakers: end becomes a string,
\* item.start when the segment had none
WithEnd(seg) ==
    IF HasField(seg, "end") THEN seg
    ELSE IF ~HasField(seg, "start") THEN seg
    ELSE [f \in DOMAIN seg \cup {"end"} |-> IF f = "end" THEN seg.start ELSE seg[f]]


(***************************************************************************)
(* ai.ts: the model list of transcribeWithContext.                         *)
(***************************************************************************)
CANDIDATE_MODELS ==
    <<"models/gemini-2.5-pro", "models/gemini-2.5-flash",
      "models/gemini-2.0-flash", "models/gemini-2.0-flash-lite">>

\* MODEL_MAP[preferredModel] || preferredModel, null ("") when not given
PreferredModelOf(opt) ==
    IF opt = "" THEN ""
    ELSE IF opt = "pro" THEN "models/gemini-2.5-pro"
    ELSE IF opt = "flash" THEN "models/gemini-2.5-flash"
    ELSE IF opt = "flash-lite" THEN "models/gemini-2.0-flash-lite"
    ELSE opt

\* a model list that keeps the preferred model in the fallback part
ModelsToTryMutNoFilter(pm) ==
    IF pm # "" THEN <<pm>> \o CANDIDATE_MODELS ELSE CANDIDATE_MODELS
\* preferredModel ? [preferredModel, ...CANDIDATE_MODELS.filter(m => m !== preferredModel)]
\*                : CANDIDATE_MODELS
ModelsToTry(pm) ==
    IF pm # ""
    THEN <<pm>> \o SelectSeq(CANDIDATE_MODELS, LAMBDA m : m # pm)
    ELSE CANDIDATE_MODELS

\* the classifier of the catch block (429, 503, quota, rate limit,
\* resource_exhausted, overloaded), on the messages the model uses
IsQuotaError(msg) == msg \in {"429 quota exceeded", "503 overloaded"}

AllModelsExhausted == "All models exhausted. Please try again later."
UploadFailed == "Audio processing failed on Google's side."

\* what a completion call can throw: a quota-class message, a service error
\* that is not quota-class (the SyntaxError of JSON.parse(responseText) is
\* classified in the same catch block and takes the same path)
QuotaMessages == {"429 quota exceeded"}
OtherMessages == {"400 bad request"}

\* getLastNLines(chunkText, 20)
CONTEXT_LINES == 20

(***************************************************************************)
(* The transcripts the completion service answers with (window-local).     *)
(***************************************************************************)
Seg(sp, st, tx) == [speaker |-> sp, start |-> st, text |-> tx]
SegE(sp, st, en, tx) == [speaker |-> sp, start |-> st, end |-> en, text |-> tx]

TEmpty == <<>>
TGood == <<SegE("Alice", <<0, 0>>, <<0, 30>>, "t1"), SegE("Bob", <<9, 30>>, <<9, 50>>, "t2")>>
TShort == <<Seg("Speaker 1", <<0, 0>>, "t1"), Seg("Speaker 2", <<0, 5>>, "t2"),
            Seg("Speaker 1", <<0, 10>>, "t3")>>
TNoStart == <<[speaker |-> "Alice", text |-> "t1"]>>

\* a window of 21 segments, one more than the context tail holds
TLong == [k \in 1..(CONTEXT_LINES + 1) |-> Seg("Alice", <<0, k>>, "t")]

Transcripts == {TEmpty, TGood, TShort, TNoStart}

(***************************************************************************)
(* run: the transcription loop.                                            *)
(***************************************************************************)
\* Number.parseInt(String(options.validationRetries ?? '')) || 2
ValidationRetriesOf(opt) == IF opt = 0 THEN 2 ELSE opt

\* (Number.parseInt(String(options.audioChunkMinutes)) || 10) * 60
ChunkDurationSecondsOf(minutes) == (IF minutes = 0 THEN 10 ELSE minutes) * 60

\* the description of a run whose audio analysis answered
FinalDescription == "description"

NumWindows == Len(chunks)
CurChunk == chunks[i + 1]
ExpectedDuration == CurChunk.endTime - CurChunk.startTime

\* the timing hint names the expected duration; '' on the first attempt
TimingHint(att, expected) ==
    IF att > 0 THEN <<expected, FormatTime(expected)>> ELSE <<>>

\* a prompt that never carries the previous context
PromptMutNoTail ==
    [description |-> finalDescription,
     chunkNumber |-> i + 1,
     totalChunks |-> NumWindows,
     previousTranscription |-> <<>>,
     timingHint |-> TimingHint(attempt, ExpectedDuration)]
\* TRANSCRIPTION_PROMPT(finalDescription, i + 1, chunks.length, previousTranscription, ...) + timingHint
Prompt ==
    [description |-> finalDescription,
     chunkNumber |-> i + 1,
     totalChunks |-> NumWindows,
     previousTranscription |-> previousTranscription,
     timingHint |-> TimingHint(attempt, ExpectedDuration)]

NoValidation == <<>>
\* progressEntry.validationResult = { isValid, coverage, issues }
ValidationSummary(vr) ==
    <<[isValid |-> vr.isValid, coverage |-> vr.stats.coverage,
       issues |-> [k \in DOMAIN vr.issues |-> vr.issues[k].type]]>>

\* an entry numbered by the 0-based loop variable
ProgressEntryMutAttempt(response, error, validation) ==
    [chunkIndex |-> i, attempt |-> attempt, prompt |-> Prompt,
     response |-> response, error |-> error, validationResult |-> validation]
\* the TranscriptionProgressEntry of the current attempt
ProgressEntry(response, error, validation) ==
    [chunkIndex |-> i, attempt |-> attempt + 1, prompt |-> Prompt,
     response |-> response, error |-> error, validationResult |-> validation]

\* response: '' and error: undefined of a fresh entry
NoResponse == <<>>
NoError == <<>>
\* a serialization that drops the data
StringifyMutEmpty(data) == <<>>
\* JSON.stringify(chunkData)
Stringify(data) == <<data>>

\* `\n[Transcription error for chunk ${i + 1}]\n`
ErrorMarker(n) == <<[error |-> "Transcription error for chunk", chunk |-> n]>>

\* the placeholder of the outer catch
Placeholder ==
    [speaker |-> "SYSTEM", start |-> "ERROR", end |-> "ERROR",
     text |-> "[Transcription failed for this segment]"]

\* a rewrite that keeps the progress indicator when complete
UpdateTranscriptionFileMutKeepsMarker(content, currentChunk, totalChunks, isComplete) ==
    [marker |-> <<currentChunk, totalChunks>>, body |-> content, inProgressNote |-> FALSE]
\* updateTranscriptionFile(filePath, content, currentChunk, totalChunks, isComplete):
\* everything after the '# Full Transcription' header is replaced
UpdateTranscriptionFile(content, currentChunk, totalChunks, isComplete) ==
    [marker |-> IF isComplete THEN <<>> ELSE <<currentChunk, totalChunks>>,
     body |-> content, inProgressNote |-> FALSE]

\* a tail that is the whole text
GetLastNLinesMutAll(lines, n) == lines
\* getLastNLines(text, n): the last n non-blank lines
GetLastNLines(lines, n) ==
    IF Len(lines) <= n THEN lines ELSE SubSeq(lines, Len(lines) - n + 1, Len(lines))

\* a ledger kept in memory and never written
WriteProgressFileMutBuffered(file, ledger) == file
\* fs.writeFileSync(progressPath, JSON.stringify(transcriptionProgress, null, 2)):
\* the file's content is replaced by the array in memory
WriteProgressFile(file, ledger) == ledger

\* a cache used even under --force
UseCacheMutIgnoreForce(forced, exists) == exists
\* if (!options.force && fs.existsSync(cachePath))
UseCache(forced, exists) == ~forced /\ exists

\* an attempt counter that is not advanced
NextAttemptMutSame(att) == att
\* attempt++ of the attempt loop
NextAttempt(att) == att + 1

\* fs.existsSync(cachePath)
CacheExists(idx) == \E f \in cacheFiles : f.index = idx
CacheFile(idx) == CHOOSE f \in cacheFiles : f.index = idx
\* a cache entry that exists is kept as it is
WriteCacheMutKeepsOld(files, idx, data) ==
    IF \E f \in files : f.index = idx THEN files
    ELSE files \cup {[index |-> idx, readable |-> TRUE, data |-> data]}
\* fs.writeFileSync(cachePath, JSON.stringify(chunkData, null, 2))
WriteCache(files, idx, data) ==
    {f \in files : f.index # idx} \cup {[index |-> idx, readable |-> TRUE, data |-> data]}

\* speakers taken over from the transcripts an earlier run left in the cache
KnownSpeakersAtStartMutRestored == <<"Alice", "Bob">>
\* let knownSpeakers: string[] = []
KnownSpeakersAtStart == <<>>

\* SpecPlan calls splitAudioToDir on its own: the run does not exist
RunIdle ==
    /\ validationRetries = 0 /\ enableTimingCheck = FALSE /\ force = FALSE
    /\ preferredModel = "" /\ answers = {}
    /\ ctxPc = "idle" /\ isVideo = FALSE
    /\ imageDescription = "" /\ audioDescription = "" /\ finalDescription = ""
    /\ pc = "idle" /\ chunks = <<>> /\ i = 0 /\ attempt = 0 /\ modelIdx = 0
    /\ callLog = <<>> /\ thrown = "" /\ chunkData = <<>> /\ validationPassed = FALSE
    /\ previousTranscription = <<>> /\ transcriptionContent = <<>>
    /\ chunkTranscriptions = <<>> /\ fullTranscript = <<>>
    /\ transcriptionProgress = <<>> /\ knownSpeakers = <<>>
    /\ cacheFiles = {} /\ progressFile = <<>>
    /\ transcriptionFile = [marker |-> <<>>, body |-> <<>>, inProgressNote |-> FALSE]
    /\ exitCode = -1 /\ faults = 0


(***************************************************************************)
(* splitAudioToDir (the same computation as splitter.ts splitAudio).       *)
(***************************************************************************)

\* a step that ignores the overlap
ChunkStepMutNoOverlap(cd, od) == cd
\* const chunkStep = chunkDuration - overlapDuration
ChunkStep(cd, od) == cd - od

\* a loop bound rounded down instead of up
InLoopMutFloor(idx, d, step) ==
    IF step = 0 THEN d > 0
    ELSE IF step > 0 THEN idx < d \div step
    ELSE FALSE
\* i < totalChunks, with totalChunks = Math.ceil(duration / chunkStep):
\* chunkStep = 0 gives Infinity, a negative chunkStep gives a value <= 0.
InLoop(idx, d, step) ==
    IF step = 0 THEN d > 0
    ELSE IF step > 0 THEN idx < (d + step - 1) \div step
    ELSE FALSE

\* a window whose end is not clamped to the duration
ChunkInfoMutNoClamp(idx, d, cd, od) ==
    [index |-> idx, startTime |-> idx * ChunkStep(cd, od),
     endTime |-> idx * ChunkStep(cd, od) + cd]
\* the ChunkInfo pushed by iteration i: endTime = Math.min(startTime + chunkDuration, duration)
ChunkInfo(idx, d, cd, od) ==
    [index |-> idx, startTime |-> idx * ChunkStep(cd, od),
     endTime |-> Min(idx * ChunkStep(cd, od) + cd, d)]

\* fs.existsSync(chunkPath): the path is named by the chunk index alone
ChunkFileExists(dir, idx) == \E f \in dir : f.index = idx

\* ffmpeg(...).save(chunkPath), skipped when the file exists
Materialize(dir, c) ==
    IF ChunkFileExists(dir, c.index) THEN dir
    ELSE dir \cup {[index |-> c.index, startTime |-> c.startTime, endTime |-> c.endTime]}

\* the inputs of the planner: small ranges, and the configurations of the
\* command line (whole minutes of chunk length with the fixed 60 s overlap)
PlanInputs ==
    ((0..MaxDuration) \X (1..MaxChunk) \X (0..MaxOverlap))
    \cup {<<1200, 600, CHUNK_OVERLAP_SECONDS>>,
          <<300, 600, CHUNK_OVERLAP_SECONDS>>,
          <<2400, 1200, CHUNK_OVERLAP_SECONDS>>,
          <<120, 60, CHUNK_OVERLAP_SECONDS>>}

PlanInit ==
    /\ \E inp \in PlanInputs :
        /\ duration = inp[1]
        /\ chunkDuration = inp[2]
        /\ overlapDuration = inp[3]
    /\ splitPc = "start"
    /\ splitI = 0
    /\ splitChunks = <<>>
    /\ audioDir = {}
    /\ RunIdle
    /\ unitCall = <<>> /\ unitResult = <<>>

\* a test that sends a file as long as one chunk to the loop
IsShortMutStrict(d, cd) == d < cd
\* if (duration <= chunkDuration)
IsShort(d, cd) == d <= cd

\* if (duration <= chunkDuration): one chunk spanning the file
SplitSingle ==
    /\ splitPc = "start"
    /\ IsShort(duration, chunkDuration)
    /\ splitChunks' = <<[index |-> 0, startTime |-> 0, endTime |-> duration]>>
    /\ audioDir' = Materialize(audioDir, [index |-> 0, startTime |-> 0, endTime |-> duration])
    /\ splitPc' = "done"
    /\ UNCHANGED <<duration, chunkDuration, overlapDuration, splitI>>
    /\ UNCHANGED runVars

\* chunkStep and totalChunks are computed, the loop is entered
SplitBegin ==
    /\ splitPc = "start"
    /\ ~IsShort(duration, chunkDuration)
    /\ splitPc' = "loop"
    /\ splitI' = 0
    /\ UNCHANGED <<duration, chunkDuration, overlapDuration, splitChunks, audioDir>>
    /\ UNCHANGED runVars

\* one iteration of for (let i = 0; i < totalChunks; i++)
SplitStep ==
    /\ splitPc = "loop"
    /\ InLoop(splitI, duration, ChunkStep(chunkDuration, overlapDuration))
    /\ ChunkStep(chunkDuration, overlapDuration) = 0 => splitI < MaxSplitIter
    /\ LET c == ChunkInfo(splitI, duration, chunkDuration, overlapDuration) IN
        /\ splitChunks' = Append(splitChunks, c)
        /\ audioDir' = Materialize(audioDir, c)
    /\ splitI' = splitI + 1
    /\ UNCHANGED <<duration, chunkDuration, overlapDuration, splitPc>>
    /\ UNCHANGED runVars

\* the loop ends and chunks is returned
SplitReturn ==
    /\ splitPc = "loop"
    /\ ~InLoop(splitI, duration, ChunkStep(chunkDuration, overlapDuration))
    /\ splitPc' = "done"
    /\ UNCHANGED <<duration, chunkDuration, overlapDuration, splitI, splitChunks, audioDir>>
    /\ UNCHANGED runVars

(***************************************************************************)
(* run                                                                     *)
(***************************************************************************)
\* the runs checked: [duration of the recording, --audio-chunk-minutes,
\* --validation-retries, --model, timing check, --force]
RunConfig(d, minutes, retries, model, timing, forced) ==
    [duration |-> d, minutes |-> minutes, retries |-> retries, model |-> model,
     timingCheck |-> timing, force |-> forced]

RunConfigs ==
    \* one window, every option
    {RunConfig(300, 10, r, m, t, f) :
        r \in {0, 1, 2}, m \in {"", "pro", "flash", "my-model"},
        t \in BOOLEAN, f \in BOOLEAN}
    \* two windows, the default model
    \cup {RunConfig(900, 10, r, "pro", t, f) :
        r \in {1, 2}, t \in BOOLEAN, f \in BOOLEAN}
    \cup {RunConfig(1500, 20, 2, "pro", TRUE, FALSE)}
    \* three windows, the default model
    \cup {RunConfig(1200, 10, 1, "pro", TRUE, FALSE)}
    \* a chunk length equal to the overlap
    \cup {RunConfig(120, 1, 2, "pro", TRUE, FALSE)}
\* the cache entry an earlier run wrote for a window that answered with generic
\* labels when Alice and Bob were known: relabelled, each segment with an end
TRelabelled ==
    LET speakerMap == BuildSpeakerNormalizationMap(<<"Speaker 1", "Speaker 2">>,
                                                   <<"Alice", "Bob">>)
        nt == NormalizeTranscriptSpeakers(TShort, speakerMap)
    IN [k \in DOMAIN nt |-> WithEnd(nt[k])]

\* an entry of transcription_progress.json left by an earlier run
PriorEntry ==
    [chunkIndex |-> 0, attempt |-> 1,
     prompt |-> [description |-> FinalDescription, chunkNumber |-> 1, totalChunks |-> 1,
                 previousTranscription |-> <<>>, timingHint |-> <<>>],
     response |-> Stringify(TGood), error |-> NoError, validationResult |-> NoValidation]

\* what an earlier run on the same input left in the transcription directory:
\* nothing; the cache file of window 0 and its ledger; a cache file of window 0
\* that JSON.parse cannot read (a write cut short) and the ledger
PriorRuns ==
    {[caches |-> {}, ledger |-> <<>>],
     [caches |-> {[index |-> 0, readable |-> TRUE, data |-> TGood]},
      ledger |-> <<PriorEntry>>],
     [caches |-> {[index |-> 0, readable |-> FALSE, data |-> <<>>]},
      ledger |-> <<PriorEntry>>],
     [caches |-> {[index |-> 0, readable |-> TRUE, data |-> TGood],
                  [index |-> 1, readable |-> TRUE, data |-> TRelabelled]},
      ledger |-> <<PriorEntry>>]}

\* a run started earlier with --audio-chunk-minutes 20 has left its chunk file
\* <input>_chunk_0.mp3 of window 0 in the audio directory
PriorAudio(prior, d) ==
    IF prior.caches = {} THEN {}
    ELSE {[index |-> 0, startTime |-> 0,
           endTime |-> Min(d, ChunkDurationSecondsOf(20))]}

Init ==
    /\ \E c \in RunConfigs :
        /\ duration = c.duration
        /\ chunkDuration = ChunkDurationSecondsOf(c.minutes)
        /\ validationRetries = ValidationRetriesOf(c.retries)
        /\ enableTimingCheck = c.timingCheck
        /\ force = c.force
        /\ preferredModel = PreferredModelOf(c.model)
    /\ overlapDuration = CHUNK_OVERLAP_SECONDS
    /\ answers = Transcripts
    /\ unitCall = <<>> /\ unitResult = <<>>
    /\ ctxPc = "done" /\ isVideo = FALSE
    /\ imageDescription = "" /\ audioDescription = FinalDescription
    /\ finalDescription = FinalDescription
    /\ splitPc = "start" /\ splitI = 0 /\ splitChunks = <<>>
    /\ pc = "split" /\ chunks = <<>> /\ i = 0 /\ attempt = 0 /\ modelIdx = 0
    /\ callLog = <<>> /\ thrown = "" /\ chunkData = <<>> /\ validationPassed = FALSE
    /\ previousTranscription = <<>> /\ transcriptionContent = <<>>
    /\ chunkTranscriptions = <<>> /\ fullTranscript = <<>>
    /\ transcriptionProgress = <<>> /\ knownSpeakers = KnownSpeakersAtStart
    /\ \E prior \in PriorRuns :
        /\ cacheFiles = prior.caches
        /\ progressFile = prior.ledger
        /\ audioDir = PriorAudio(prior, duration)
    /\ transcriptionFile = [marker |-> <<>>, body |-> <<>>, inProgressNote |-> FALSE]
    /\ exitCode = -1 /\ faults = 0

\* const chunks = await splitAudioToDir(...); the initial transcription file is
\* written and the loop state is set up
SplitDone ==
    /\ pc = "split" /\ splitPc = "done" /\ ctxPc = "done"
    /\ chunks' = splitChunks
    /\ transcriptionFile' = [marker |-> <<>>, body |-> <<>>, inProgressNote |-> TRUE]
    /\ pc' = "loop"
    /\ UNCHANGED <<i, attempt, modelIdx, callLog, thrown, chunkData, validationPassed>>
    /\ UNCHANGED <<planVars, optVars, memVars, cacheFiles, progressFile, exitCode, faults>>

\* loop head, cache branch: if (!options.force && fs.existsSync(cachePath))
LoopCacheHit ==
    /\ pc = "loop" /\ i < NumWindows
    /\ UseCache(force, CacheExists(i))
    /\ chunkData' = IF CacheFile(i).readable THEN CacheFile(i).data ELSE <<>>
    /\ validationPassed' = CacheFile(i).readable
    /\ pc' = "assemble"
    /\ UNCHANGED <<chunks, i, attempt, modelIdx, callLog, thrown>>
    /\ UNCHANGED <<planVars, optVars, memVars, diskVars, exitCode, faults>>

\* loop head, else branch: the attempt loop starts
LoopStartAttempts ==
    /\ pc = "loop" /\ i < NumWindows
    /\ ~UseCache(force, CacheExists(i))
    /\ chunkData' = <<>>
    /\ validationPassed' = FALSE
    /\ attempt' = 0
    /\ pc' = "attempt"
    /\ UNCHANGED <<chunks, i, modelIdx, callLog, thrown>>
    /\ UNCHANGED <<planVars, optVars, memVars, diskVars, exitCode, faults>>

\* catch (error: any) of the attempt: the entry is logged, the file written,
\* and on the last attempt the error marker goes to the document
CatchError ==
    /\ pc = "threw"
    /\ transcriptionProgress' =
         Append(transcriptionProgress,
                ProgressEntry(NoResponse, <<"Gemini API Error", thrown>>, NoValidation))
    /\ progressFile' = WriteProgressFile(progressFile, transcriptionProgress')
    /\ IF attempt = validationRetries
       THEN /\ chunkTranscriptions' = Append(chunkTranscriptions, ErrorMarker(i + 1))
            /\ transcriptionFile' =
                 UpdateTranscriptionFile(Append(transcriptionContent, ErrorMarker(i + 1)),
                                         i + 1, NumWindows, FALSE)
       ELSE UNCHANGED <<chunkTranscriptions, transcriptionFile>>
    /\ attempt' = NextAttempt(attempt)
    /\ pc' = "attempt"
    /\ thrown' = ""
    /\ callLog' = <<>>
    /\ modelIdx' = 0
    /\ UNCHANGED <<chunks, i, chunkData, validationPassed>>
    /\ UNCHANGED <<previousTranscription, transcriptionContent, fullTranscript, knownSpeakers>>
    /\ UNCHANGED <<planVars, optVars, cacheFiles, exitCode, faults>>

\* const fileUri = await client.uploadMedia(chunk.path)
AttemptUploadOk ==
    /\ pc = "attempt" /\ attempt <= validationRetries
    /\ pc' = "model"
    /\ modelIdx' = 1
    /\ callLog' = <<>>
    /\ UNCHANGED <<chunks, i, attempt, thrown, chunkData, validationPassed>>
    /\ UNCHANGED <<planVars, optVars, memVars, diskVars, exitCode, faults>>

\* an error leaves the try block of the attempt
Throw(msg) ==
    /\ faults < MaxFaults
    /\ faults' = faults + 1
    /\ thrown' = msg
    /\ pc' = "threw"
    /\ UNCHANGED <<chunks, i, attempt, modelIdx, chunkData, validationPassed>>
    /\ UNCHANGED <<planVars, optVars, memVars, diskVars, exitCode>>

\* uploadMedia throws
AttemptUploadFails ==
    /\ pc = "attempt" /\ attempt <= validationRetries
    /\ Throw(UploadFailed)
    /\ UNCHANGED callLog

\* transcribeWithContext: generateContent (or JSON.parse) throws on the current
\* model; a quota-class message moves to the next model, the last model's ends
\* the call with AllModelsExhausted, any other message is rethrown
ModelThrows ==
    /\ pc = "model"
    /\ \E msg \in QuotaMessages \cup OtherMessages :
        /\ callLog' = Append(callLog, [model |-> ModelsToTry(preferredModel)[modelIdx],
                                       outcome |-> msg, body |-> <<>>])
        /\ IF IsQuotaError(msg) /\ modelIdx < Len(ModelsToTry(preferredModel))
           THEN /\ modelIdx' = modelIdx + 1
                /\ UNCHANGED <<pc, chunks, i, attempt, thrown, chunkData, validationPassed>>
                /\ UNCHANGED <<planVars, optVars, memVars, diskVars, exitCode, faults>>
           ELSE Throw(IF IsQuotaError(msg) THEN AllModelsExhausted ELSE msg)

\* transcribeWithContext returns JSON.parse(responseText) of the current model
ModelReturns ==
    /\ pc = "model"
    /\ \E t \in answers :
        /\ callLog' = Append(callLog, [model |-> ModelsToTry(preferredModel)[modelIdx],
                                       outcome |-> "ok", body |-> t])
        /\ chunkData' = t
    /\ pc' = "received"
    /\ UNCHANGED <<chunks, i, attempt, modelIdx, thrown, validationPassed>>
    /\ UNCHANGED <<planVars, optVars, memVars, diskVars, exitCode, faults>>

\* "Save successful transcription": cache file, ledger entry, ledger file, break
SaveAccepted(data, validation) ==
    /\ chunkData' = data
    /\ validationPassed' = TRUE
    /\ cacheFiles' = WriteCache(cacheFiles, i, data)
    /\ transcriptionProgress' =
         Append(transcriptionProgress, ProgressEntry(Stringify(data), NoError, validation))
    /\ progressFile' = WriteProgressFile(progressFile, transcriptionProgress')
    /\ pc' = "postloop"
    /\ UNCHANGED attempt

\* strict timing switched on
StrictTimingMutOn == TRUE
\* strictTiming: false of the validationConfig the run builds
StrictTiming == FALSE

\* the code between the return of transcribeWithContext and the end of the try
\* block: validation, speaker normalization, knownSpeakers, cache and ledger
ValidateAndSave ==
    /\ pc = "received"
    /\ LET vr == ValidateTranscript(chunkData, ExpectedDuration, 60, 120,
                                    knownSpeakers, StrictTiming)
           speakerMap == BuildSpeakerNormalizationMap(vr.stats.speakers, knownSpeakers)
           normalized ==
               IF HasIssue(vr, "speaker_inconsistency") /\ DOMAIN speakerMap # {}
               THEN LET nt == NormalizeTranscriptSpeakers(chunkData, speakerMap)
                    IN [k \in DOMAIN nt |-> WithEnd(nt[k])]
               ELSE chunkData
       IN
       IF enableTimingCheck /\ Len(chunkData) > 0
       THEN IF vr.isValid
            THEN /\ knownSpeakers' =
                      knownSpeakers \o SelectNotIn(vr.stats.speakers, Range(knownSpeakers))
                 /\ SaveAccepted(normalized, ValidationSummary(vr))
            ELSE IF attempt < validationRetries
            THEN \* validation failed, will retry
                 /\ transcriptionProgress' =
                      Append(transcriptionProgress,
                             ProgressEntry(NoResponse, <<"Validation failed", "">>,
                                           ValidationSummary(vr)))
                 /\ progressFile' = WriteProgressFile(progressFile, transcriptionProgress')
                 /\ attempt' = NextAttempt(attempt)
                 /\ pc' = "attempt"
                 /\ UNCHANGED <<chunkData, validationPassed, knownSpeakers, cacheFiles>>
            ELSE \* last attempt failed validation, used anyway
                 /\ knownSpeakers' = Unique(knownSpeakers \o vr.stats.speakers)
                 /\ SaveAccepted(chunkData, ValidationSummary(vr))
       ELSE /\ knownSpeakers' =
                 Unique(knownSpeakers \o [k \in DOMAIN chunkData |-> chunkData[k].speaker])
            /\ SaveAccepted(chunkData, NoValidation)
    /\ callLog' = <<>>
    /\ modelIdx' = 0
    /\ UNCHANGED <<chunks, i, thrown>>
    /\ UNCHANGED <<previousTranscription, transcriptionContent, chunkTranscriptions,
                   fullTranscript, transcriptionFile>>
    /\ UNCHANGED <<planVars, optVars, exitCode, faults>>

\* a `break` in the place of the `continue`: the window loop ends
AfterSkipMutBreak(idx, n) == n
\* `continue` of the window loop: the next window is i + 1
AfterSkip(idx, n) == idx + 1

\* the attempt loop has ended (break, or attempt > validationRetries):
\* if (!validationPassed && chunkData.length === 0) continue
PostLoop ==
    /\ \/ pc = "postloop"
       \/ pc = "attempt" /\ attempt > validationRetries
    /\ IF ~validationPassed /\ Len(chunkData) = 0
       THEN /\ i' = AfterSkip(i, NumWindows)
            /\ pc' = "loop"
       ELSE /\ pc' = "assemble"
            /\ UNCHANGED i
    /\ UNCHANGED <<chunks, attempt, modelIdx, callLog, thrown, chunkData, validationPassed>>
    /\ UNCHANGED <<planVars, optVars, memVars, diskVars, exitCode, faults>>

\* the formatted line of a segment: `**[${item.start}] ${item.speaker}:** ${item.text}`
FormatLine(seg) == [start |-> seg.start, speaker |-> seg.speaker, text |-> seg.text]

\* chunkData.map(item => ({ ...item, start: formatTime(parseTime(item.start) + chunk.startTime) }))
AdjustSegment(seg, chunkStart) ==
    [seg EXCEPT !.start = FormatTime(ParseTime(seg) + chunkStart)]
AdjustedData(data, chunkStart) ==
    [k \in DOMAIN data |-> AdjustSegment(data[k], chunkStart)]

\* timestamps are adjusted, the window is appended to the transcript and the
\* document; a TypeError of parseTime lands in the outer catch, which pushes the
\* SYSTEM/ERROR placeholder
Assemble ==
    /\ pc = "assemble"
    /\ IF \E k \in DOMAIN chunkData : ParseTimeThrows(chunkData[k])
       THEN /\ fullTranscript' = Append(fullTranscript, Placeholder)
            /\ UNCHANGED <<previousTranscription, transcriptionContent,
                           chunkTranscriptions, transcriptionFile>>
       ELSE LET adjustedData == AdjustedData(chunkData, CurChunk.startTime)
                chunkText == [k \in DOMAIN adjustedData |-> FormatLine(adjustedData[k])]
            IN /\ fullTranscript' = fullTranscript \o adjustedData
               /\ chunkTranscriptions' = Append(chunkTranscriptions, chunkText)
               /\ transcriptionContent' = chunkTranscriptions'
               /\ previousTranscription' = GetLastNLines(chunkText, CONTEXT_LINES)
               /\ transcriptionFile' =
                    UpdateTranscriptionFile(transcriptionContent', i + 1, NumWindows, FALSE)
    /\ i' = i + 1
    /\ pc' = "loop"
    /\ UNCHANGED <<chunks, attempt, modelIdx, callLog, thrown, chunkData, validationPassed>>
    /\ UNCHANGED <<transcriptionProgress, knownSpeakers, cacheFiles, progressFile>>
    /\ UNCHANGED <<planVars, optVars, exitCode, faults>>

\* after the loop: the final update of the document, then the output phase
LoopEnd ==
    /\ pc = "loop" /\ i >= NumWindows
    /\ transcriptionFile' =
         UpdateTranscriptionFile(transcriptionContent, NumWindows, NumWindows, TRUE)
    /\ pc' = "done"
    /\ exitCode' = 0
    /\ UNCHANGED <<chunks, i, attempt, modelIdx, callLog, thrown, chunkData, validationPassed>>
    /\ UNCHANGED <<planVars, optVars, memVars, cacheFiles, progressFile, faults>>

Next ==
    \/ SplitSingle \/ SplitBegin \/ SplitStep \/ SplitReturn
    \/ SplitDone
    \/ LoopCacheHit \/ LoopStartAttempts
    \/ AttemptUploadOk \/ AttemptUploadFails
    \/ CatchError
    \/ ModelThrows \/ ModelReturns
    \/ ValidateAndSave
    \/ PostLoop
    \/ Assemble
    \/ LoopEnd

Spec == Init /\ [][Next]_vars

FairSpec == Spec /\ WF_vars(Next)

(***************************************************************************)
(* run, phase 1: content analysis. The three calls of the completion       *)
(* service (analyzeImages, analyzeAudio, mergeDescriptions) walk the same  *)
(* model list as transcribeWithContext; modelIdx and thrown are reused.    *)
(***************************************************************************)
NoDescription == "No description available."
VisualText == "visual description"
AudioText == "audio description"
MergedText == "merged description"

\* the string the service answers with in a sub-step; result.response.text()
\* may be the empty string
AnswersOf(step) ==
    {"", IF step = "images" THEN VisualText
         ELSE IF step = "audio" THEN AudioText ELSE MergedText}

\* "All models exhausted for image analysis / audio analysis / description merge."
ExhaustedFor(step) == <<"All models exhausted for", step>>

\* a sub-step whose call stands inside a try block with a catch that goes on
CaughtMutMergeEscapes(step) == step # "merge"
CaughtInRun(step) == step \in {"images", "audio", "merge"}

\* a || b || c on strings
OrElse(a, b) == IF a # "" THEN a ELSE b

\* what phase 1 leaves alone
CtxFrame ==
    /\ UNCHANGED <<duration, chunkDuration, overlapDuration, splitI, splitChunks, audioDir>>
    /\ UNCHANGED <<validationRetries, enableTimingCheck, force, preferredModel, isVideo>>
    /\ UNCHANGED answers
    /\ UNCHANGED <<chunks, i, attempt, callLog, chunkData, validationPassed>>
    /\ UNCHANGED <<memVars, diskVars, faults, unitVars>>

\* if (isVideo) { screenshots; analyzeImages } else straight to the audio
CtxBegin ==
    /\ ctxPc = "start"
    /\ IF isVideo
       THEN ctxPc' = "images" /\ modelIdx' = 1 /\ UNCHANGED splitPc
       ELSE ctxPc' = "split" /\ modelIdx' = 0 /\ splitPc' = "start"
    /\ UNCHANGED <<imageDescription, audioDescription, finalDescription>>
    /\ UNCHANGED <<pc, thrown, exitCode>>
    /\ CtxFrame

\* generateContent throws on the current model: a quota-class message moves
\* to the next model, the last model's ends the call, any other is rethrown
CtxModelThrows ==
    /\ ctxPc \in {"images", "audio", "merge"} /\ modelIdx > 0 /\ thrown = ""
    /\ \E msg \in QuotaMessages \cup OtherMessages :
        IF IsQuotaError(msg) /\ modelIdx < Len(ModelsToTry(preferredModel))
        THEN modelIdx' = modelIdx + 1 /\ UNCHANGED thrown
        ELSE /\ thrown' = IF IsQuotaError(msg) THEN ExhaustedFor(ctxPc) ELSE <<msg>>
             /\ modelIdx' = 0
    /\ UNCHANGED <<ctxPc, splitPc, imageDescription, audioDescription, finalDescription>>
    /\ UNCHANGED <<pc, exitCode>>
    /\ CtxFrame

\* the merge step of the run: both descriptions present -> mergeDescriptions,
\* else audioDescription || imageDescription || 'No description available.'
AfterAudio(img, aud) ==
    IF img # "" /\ aud # ""
    THEN /\ ctxPc' = "merge" /\ modelIdx' = 1
         /\ UNCHANGED finalDescription
    ELSE /\ ctxPc' = "done" /\ modelIdx' = 0
         /\ finalDescription' = OrElse(aud, OrElse(img, NoDescription))

\* what the run does once a sub-step has ended with description d ("" after
\* a caught error): the assignment and the code up to the next call
CtxContinue(d) ==
    /\ ctxPc = "images" =>
        /\ imageDescription' = d
        /\ ctxPc' = "split" /\ splitPc' = "start" /\ modelIdx' = 0
        /\ UNCHANGED <<audioDescription, finalDescription>>
    /\ ctxPc = "audio" =>
        /\ audioDescription' = d
        /\ AfterAudio(imageDescription, d)
        /\ UNCHANGED <<imageDescription, splitPc>>
    /\ ctxPc = "merge" =>
        /\ finalDescription' = d
        /\ ctxPc' = "done" /\ modelIdx' = 0
        /\ UNCHANGED <<imageDescription, audioDescription, splitPc>>

\* the call returns result.response.text()
CtxModelReturns ==
    /\ ctxPc \in {"images", "audio", "merge"} /\ modelIdx > 0 /\ thrown = ""
    /\ \E d \in AnswersOf(ctxPc) : CtxContinue(d)
    /\ UNCHANGED <<pc, thrown, exitCode>>
    /\ CtxFrame

\* the error of a sub-step reaches its catch block: the description stays
\* '' (images, audio) or finalDescription = audioDescription || imageDescription
\* (merge); an error no block catches reaches the catch of run: process.exit(1)
CtxCatch ==
    /\ ctxPc \in {"images", "audio", "merge"} /\ thrown # ""
    /\ IF CaughtInRun(ctxPc)
       THEN /\ CtxContinue(IF ctxPc = "merge"
                           THEN OrElse(audioDescription, imageDescription)
                           ELSE "")
            /\ UNCHANGED <<pc, exitCode>>
       ELSE /\ pc' = "aborted" /\ exitCode' = 1
            /\ ctxPc' = "aborted" /\ modelIdx' = 0
            /\ UNCHANGED <<splitPc, imageDescription, audioDescription, finalDescription>>
    /\ thrown' = ""
    /\ CtxFrame

\* analyzeAudio: const fileUri = await this.uploadMedia(audioPath), after
\* splitAudioToDir has returned and the tag sample has been cut
CtxUploadOk ==
    /\ ctxPc = "split" /\ splitPc = "done"
    /\ ctxPc' = "audio" /\ modelIdx' = 1
    /\ UNCHANGED <<splitPc, imageDescription, audioDescription, finalDescription>>
    /\ UNCHANGED <<pc, thrown, exitCode>>
    /\ CtxFrame

\* uploadMedia throws inside analyzeAudio
CtxUploadFails ==
    /\ ctxPc = "split" /\ splitPc = "done"
    /\ ctxPc' = "audio" /\ modelIdx' = 0
    /\ thrown' = <<UploadFailed>>
    /\ UNCHANGED <<splitPc, imageDescription, audioDescription, finalDescription>>
    /\ UNCHANGED <<pc, exitCode>>
    /\ CtxFrame

\* the runs checked from the start of phase 1
CtxConfigs ==
    {RunConfig(300, 10, 1, "pro", TRUE, FALSE), RunConfig(900, 10, 1, "", TRUE, FALSE)}

CtxInit ==
    /\ \E c \in CtxConfigs :
        /\ duration = c.duration
        /\ chunkDuration = ChunkDurationSecondsOf(c.minutes)
        /\ validationRetries = ValidationRetriesOf(c.retries)
        /\ enableTimingCheck = c.timingCheck
        /\ force = c.force
        /\ preferredModel = PreferredModelOf(c.model)
    /\ overlapDuration = CHUNK_OVERLAP_SECONDS
    /\ answers = Transcripts \cup {TLong}
    /\ unitCall = <<>> /\ unitResult = <<>>
    /\ ctxPc = "start" /\ isVideo \in BOOLEAN
    /\ imageDescription = "" /\ audioDescription = "" /\ finalDescription = ""
    /\ splitPc = "idle" /\ splitI = 0 /\ splitChunks = <<>> /\ audioDir = {}
    /\ pc = "split" /\ chunks = <<>> /\ i = 0 /\ attempt = 0 /\ modelIdx = 0
    /\ callLog = <<>> /\ thrown = "" /\ chunkData = <<>> /\ validationPassed = FALSE
    /\ previousTranscription = <<>> /\ transcriptionContent = <<>>
    /\ chunkTranscriptions = <<>> /\ fullTranscript = <<>>
    /\ transcriptionProgress = <<>> /\ knownSpeakers = KnownSpeakersAtStart
    /\ \E prior \in PriorRuns :
        /\ cacheFiles = prior.caches
        /\ progressFile = prior.ledger
    /\ transcriptionFile = [marker |-> <<>>, body |-> <<>>, inProgressNote |-> FALSE]
    /\ exitCode = -1 /\ faults = 0

CtxNext ==
    \/ CtxBegin
    \/ CtxModelThrows \/ CtxModelReturns \/ CtxCatch
    \/ CtxUploadOk \/ CtxUploadFails
    \/ Next

SpecContext == CtxInit /\ [][CtxNext]_vars

PlanDone == splitPc = "done"
PlanStep == ChunkStep(chunkDuration, overlapDuration)
NumChunks == Len(splitChunks)
ValidPlanConfig == chunkDuration > overlapDuration /\ overlapDuration >= 0

\* C1: for totalDuration > 0 and windowLength > overlap >= 0 the returned
\* windows cover [0, totalDuration] without a gap: window 0 starts at 0, every
\* later window starts no later than the previous window's end, and the last
\* window ends at totalDuration exactly.
C1_WindowCoverage ==
    (PlanDone /\ duration > 0 /\ ValidPlanConfig) =>
        /\ NumChunks >= 1
        /\ splitChunks[1].startTime = 0
        /\ \A k \in 2..NumChunks :
              splitChunks[k].startTime <= splitChunks[k-1].endTime
        /\ splitChunks[NumChunks].endTime = duration

C1_Witness ==
    /\ PlanDone /\ duration > 0 /\ ValidPlanConfig
    /\ NumChunks >= 3
    /\ overlapDuration > 0

IsScenarioA ==
    duration = 1200 /\ chunkDuration = 600 /\ overlapDuration = 60

\* C2 as stated: duration 1200, windowLength 600, overlap 60 yields exactly the
\* two windows [0,600) and [540,1200).
C2_TwoWindows ==
    (PlanDone /\ IsScenarioA) =>
        /\ NumChunks = 2
        /\ splitChunks[1].startTime = 0 /\ splitChunks[1].endTime = 600
        /\ splitChunks[2].startTime = 540 /\ splitChunks[2].endTime = 1200

\* C2 amended: duration 1200, windowLength 600, overlap 60 yields exactly the
\* three windows [0,600), [540,1140) and [1080,1200).
C2_ThreeWindows ==
    (PlanDone /\ IsScenarioA) =>
        /\ NumChunks = 3
        /\ splitChunks[1].startTime = 0 /\ splitChunks[1].endTime = 600
        /\ splitChunks[2].startTime = 540 /\ splitChunks[2].endTime = 1140
        /\ splitChunks[3].startTime = 1080 /\ splitChunks[3].endTime = 1200

C2_Witness == PlanDone /\ IsScenarioA /\ NumChunks > 0

\* C3 as stated: in a plan of more than one window, every consecutive pair
\* (i, i+1) whose second window is not the final one overlaps by exactly
\* overlap seconds, and every window starts one step after its predecessor.
C3_OverlapExceptFinal ==
    (PlanDone /\ NumChunks > 1 /\ ValidPlanConfig) =>
        /\ \A k \in 1..(NumChunks - 1) :
              k + 1 < NumChunks =>
                splitChunks[k].endTime - splitChunks[k+1].startTime = overlapDuration
        /\ \A k \in 1..(NumChunks - 1) :
              splitChunks[k+1].startTime = splitChunks[k].startTime + PlanStep

\* C3 amended: every window starts one step after its predecessor, and a
\* consecutive pair (i, i+1) overlaps by exactly overlap seconds whenever window
\* i's end is not clamped (window[i].start + windowLength <= totalDuration).
C3_OverlapUnlessClamped ==
    (PlanDone /\ NumChunks > 1 /\ ValidPlanConfig) =>
        /\ \A k \in 1..(NumChunks - 1) :
              splitChunks[k].startTime + chunkDuration <= duration =>
                splitChunks[k].endTime - splitChunks[k+1].startTime = overlapDuration
        /\ \A k \in 1..(NumChunks - 1) :
              splitChunks[k+1].startTime = splitChunks[k].startTime + PlanStep

\* a plan in which a window that is not the last but one is clamped
C3_Witness ==
    /\ PlanDone /\ NumChunks > 2 /\ ValidPlanConfig /\ overlapDuration > 0
    /\ \E k \in 1..(NumChunks - 2) :
          splitChunks[k].startTime + chunkDuration > duration
    /\ splitChunks[1].startTime + chunkDuration <= duration

\* C4: with windowLength - overlap <= 0 and totalDuration > windowLength,
\* planning ends with a configuration error before any chunk is extracted: no
\* window is planned, no chunk file is written and no window list is returned.
C4_ConfigErrorBeforeExtraction ==
    (PlanStep <= 0 /\ duration > chunkDuration) =>
        /\ splitChunks = <<>>
        /\ audioDir = {}
        /\ splitPc # "done"

(***************************************************************************)
(* The ledger, read back.                                                  *)
(***************************************************************************)
Ledger == transcriptionProgress
EntriesOf(w) == {k \in DOMAIN Ledger : Ledger[k].chunkIndex = w}
ThrewWith(e, msg) == e.error = <<"Gemini API Error", msg>>
Windows == 0..(NumWindows - 1)

\* window w was given up: its last attempt (number validationRetries + 1) threw
GivenUp(w) ==
    \E k \in EntriesOf(w) :
        Ledger[k].attempt = validationRetries + 1 /\ Ledger[k].error # NoError
           /\ Ledger[k].error[1] = "Gemini API Error"

\* every attempt of window w ended with the whole model list exhausted
GivenUpByQuota(w) ==
    /\ GivenUp(w)
    /\ \A k \in EntriesOf(w) : ThrewWith(Ledger[k], AllModelsExhausted)

CalledModels == [k \in DOMAIN callLog |-> callLog[k].model]
FallbackWithoutPreferred == SelectSeq(CANDIDATE_MODELS, LAMBDA m : m # preferredModel)

\* C5: within one call of transcribeWithContext the models are tried one at a
\* time in the order [preferred model if configured, then the fallback list
\* without it], each at most once; only a quota error moves on to the next
\* model; the first success ends the call with that model's output; the call
\* ends with 'All models exhausted' exactly when every model returned a quota
\* error.
C5_ModelFallbackOrder ==
    LET rest == IF preferredModel # "" /\ callLog # <<>>
                THEN Tail(CalledModels) ELSE CalledModels
        allQuota == \A k \in DOMAIN callLog : callLog[k].outcome \in QuotaMessages
        nModels == Len(FallbackWithoutPreferred) + (IF preferredModel # "" THEN 1 ELSE 0)
    IN
    /\ \A k, l \in DOMAIN callLog : k # l => callLog[k].model # callLog[l].model
    /\ (preferredModel # "" /\ callLog # <<>>) => callLog[1].model = preferredModel
    /\ Len(rest) <= Len(FallbackWithoutPreferred)
    /\ \A k \in DOMAIN rest : rest[k] = FallbackWithoutPreferred[k]
    /\ \A k \in DOMAIN callLog :
          k < Len(callLog) => callLog[k].outcome \in QuotaMessages
    /\ pc = "model" => (allQuota /\ Len(callLog) < nModels /\ modelIdx = Len(callLog) + 1)
    /\ pc = "received" =>
          /\ callLog[Len(callLog)].outcome = "ok"
          /\ chunkData = callLog[Len(callLog)].body
    /\ (pc = "threw" /\ callLog # <<>>) =>
          /\ callLog[Len(callLog)].outcome # "ok"
          /\ (thrown = AllModelsExhausted) <=> (allQuota /\ Len(callLog) = nModels)
          /\ ~allQuota => thrown = callLog[Len(callLog)].outcome

\* the third model of the list answers after two quota errors, with a
\* preferred model that is not the head of the fallback list
C5_Witness ==
    /\ pc = "received"
    /\ Len(callLog) = 3
    /\ preferredModel = "models/gemini-2.5-flash"
    /\ chunkData = TGood

IsNonQuotaEntry(e) == \E msg \in OtherMessages : ThrewWith(e, msg)

\* C6: a non-quota error of the completion service during a window's
\* transcription aborts the run at once with a nonzero exit: its ledger entry is
\* the last one (the window is not attempted again, no later window is processed).
C6_NonQuotaErrorAbortsRun ==
    \A k \in DOMAIN Ledger :
        IsNonQuotaEntry(Ledger[k]) => (k = Len(Ledger) /\ exitCode = 1)

\* window v was taken up: served from the cache or attempted
Processed(v) == EntriesOf(v) # {} \/ (~force /\ CacheExists(v))

\* every window after w was taken up
LaterWindowsProcessed(w) == \A v \in Windows : v > w => Processed(v)

OutputPhase == pc = "done" /\ exitCode = 0 /\ i = NumWindows

\* C7: quota-class errors never end the run: once every model is exhausted on
\* every attempt of window w, the run is not aborted; the step that leaves
\* window w is enabled, the run takes up each later window in turn, and at its
\* end it is in the output phase with all of the windows w+1..n-1 processed.
C7_QuotaNeverEndsRun ==
    \A w \in Windows :
        GivenUpByQuota(w) =>
            /\ exitCode # 1
            /\ i >= w
            /\ \A v \in Windows : (w < v /\ v < i) => Processed(v)
            /\ pc = "done" => (OutputPhase /\ LaterWindowsProcessed(w))
            /\ i = w => (pc = "attempt" /\ attempt > validationRetries /\ ENABLED PostLoop)

\* a run of three windows ended after the middle window was given up on quota
C7_Witness ==
    /\ OutputPhase
    /\ NumWindows = 3
    /\ GivenUpByQuota(1)
    /\ LaterWindowsProcessed(1)
    /\ EntriesOf(2) # {}

Placeholders == {k \in DOMAIN fullTranscript : fullTranscript[k] = Placeholder}

\* C8: after the loop, the assembled transcript holds a SYSTEM/ERROR placeholder
\* segment for every window whose transcription failed on all attempts.
C8_PlaceholderForFailedWindow ==
    pc = "done" =>
        Cardinality(Placeholders) >= Cardinality({w \in Windows : GivenUp(w)})

HasUnderflow(e) ==
    /\ e.validationResult # NoValidation
    /\ \E k \in DOMAIN e.validationResult[1].issues :
          e.validationResult[1].issues[k] = "timing_underflow"

\* C9: when a window's transcript is non-empty but fails the timing check
\* (timing_underflow) and attempts remain, the request is issued again: the
\* attempt is logged as a failed validation, and the next attempt of the window
\* carries the timing hint.
C9_UnderflowTriggersRetry ==
    \A k \in DOMAIN Ledger :
        (HasUnderflow(Ledger[k]) /\ Ledger[k].attempt <= validationRetries) =>
            /\ Ledger[k].error # NoError
            /\ Ledger[k].error[1] = "Validation failed"
            /\ (k < Len(Ledger) =>
                  /\ Ledger[k+1].chunkIndex = Ledger[k].chunkIndex
                  /\ Ledger[k+1].attempt = Ledger[k].attempt + 1
                  /\ Ledger[k+1].prompt.timingHint # <<>>)

IsEmptyOutcome(e) ==
    /\ e.validationResult # NoValidation
    /\ ~e.validationResult[1].isValid
    /\ \E k \in DOMAIN e.validationResult[1].issues :
          e.validationResult[1].issues[k] = "empty_transcript"

\* C10: a window answered with an empty transcript is retried at most
\* validationRetries times and is then accepted with an empty/error validation
\* outcome recorded in the ledger.
C10_EmptyOutcomeRecorded ==
    \A k \in DOMAIN Ledger :
        (enableTimingCheck /\ Ledger[k].response = Stringify(TEmpty)) =>
            /\ Ledger[k].attempt <= validationRetries + 1
            /\ IsEmptyOutcome(Ledger[k])

\* the step taken ends an attempt: the call returned or an error was thrown
AttemptEnds == pc \in {"received", "threw"}
LastEntry(ledger) == ledger[Len(ledger)]
AppendsOne(old, new) == Len(new) = Len(old) + 1 /\ SubSeq(new, 1, Len(old)) = old

\* the entry the step appends names the window, the attempt and the prompt sent
EntryNamesAttempt(e) == e.chunkIndex = i /\ e.attempt = attempt + 1 /\ e.prompt = Prompt

ScenarioE ==
    /\ pc = "received"
    /\ Len(callLog) = 3
    /\ callLog[1].outcome \in QuotaMessages
    /\ callLog[2].outcome \in QuotaMessages
    /\ callLog[3].outcome = "ok"

EntriesOfAttempt(ledger, w, n) ==
    {k \in DOMAIN ledger : ledger[k].chunkIndex = w /\ ledger[k].attempt = n}

Texts(data) == [k \in DOMAIN data |-> data[k].text]

LedgerOnDisk ==
    /\ Len(progressFile) >= Len(Ledger)
    /\ SubSeq(progressFile, Len(progressFile) - Len(Ledger) + 1, Len(progressFile)) = Ledger

\* an attempt or a window is about to start, or the loop has ended
BetweenAttempts == pc \in {"attempt", "postloop", "assemble", "loop", "done"}

\* C13: whenever the next attempt of a window or the first attempt of the next
\* window starts, the ledger file on disk holds the entries of all earlier
\* attempts of this run; while an attempt is in flight the file lacks at most
\* that attempt's entry.
C13_LedgerDurable ==
    /\ BetweenAttempts => LedgerOnDisk
    /\ pc \in {"model", "received", "threw"} =>
          /\ LedgerOnDisk
          /\ EntriesOfAttempt(Ledger, i, attempt + 1) = {}

\* the second window starts after a failed and an accepted attempt of the first
C13_Witness ==
    /\ pc = "attempt" /\ i = 1 /\ attempt = 0
    /\ Len(Ledger) = 2
    /\ Ledger[1].error # NoError /\ Ledger[2].error = NoError
    /\ progressFile = Ledger

\* C14: the ledger file only grows: every write leaves the entries already in
\* the file in place and unchanged, those of an earlier run on the same input
\* included.
C14_LedgerAppendOnly ==
    [][/\ Len(progressFile') >= Len(progressFile)
       /\ SubSeq(progressFile', 1, Len(progressFile)) = progressFile]_vars

\* an upload or a completion call of the current window is under way or has
\* just ended
CallInFlight == pc \in {"model", "received", "threw"}

\* C15: if a cached result exists for window i and recomputation is not forced,
\* window i's segments are taken from the cache and no upload or completion
\* call is made for it; if recomputation is forced, the cache is ignored and the
\* completion service is called for every window.
C15_CacheUsedUnlessForced ==
    /\ [](CallInFlight => (force \/ ~CacheExists(i)))
    /\ []((force /\ pc = "done") => \A w \in Windows : EntriesOf(w) # {})
    /\ [](pc = "done" => \A w \in Windows : EntriesOf(w) = {} => CacheExists(w))
    /\ [][(pc = "loop" /\ i < NumWindows) =>
            IF ~force /\ CacheExists(i)
            THEN /\ pc' = "assemble"
                 /\ CacheFile(i).readable => chunkData' = CacheFile(i).data
                 /\ Ledger' = Ledger /\ callLog' = <<>> /\ modelIdx' = 0
                 /\ cacheFiles' = cacheFiles
            ELSE /\ pc' = "attempt" /\ attempt' = 0
                 /\ chunkData' = <<>>]_vars

\* a run of two windows has ended: window 0 came from the cache, window 1 from
\* the completion service
C15_Witness ==
    /\ pc = "done" /\ ~force /\ NumWindows = 2
    /\ EntriesOf(0) = {} /\ EntriesOf(1) # {}
    /\ Len(fullTranscript) > Len(TGood)

\* the cache file f was written by this run after an accepted attempt
WrittenAfterAcceptance(f) ==
    \E k \in DOMAIN Ledger :
        /\ Ledger[k].chunkIndex = f.index
        /\ Ledger[k].error = NoError
        /\ Ledger[k].response = Stringify(f.data)

LeftByEarlierRun(f) == \E prior \in PriorRuns : f \in prior.caches

\* C16: the cache never masks a failed window as succeeded: a cache entry is
\* written only after an attempt of that window returned an accepted result, a
\* window given up in this run leaves no cache entry, and a window whose cache
\* entry cannot be read is transcribed again instead of being passed on as an
\* accepted window with no segments.
C16_CacheNeverMasksFailure ==
    /\ [](\A f \in cacheFiles : LeftByEarlierRun(f) \/ WrittenAfterAcceptance(f))
    /\ [](\A w \in Windows : GivenUp(w) => ~\E f \in cacheFiles :
                f.index = w /\ ~LeftByEarlierRun(f))
    /\ [][(pc = "loop" /\ i < NumWindows /\ CacheExists(i) /\ ~CacheFile(i).readable)
            => pc' = "attempt"]_vars

\* window w has been left: accepted (its cache file is written) or given up
WindowSettled(w) == CacheExists(w) \/ GivenUp(w)

\* C17: windows are processed in index order and the attempts of a window in
\* attempt order, one at a time: while attempt k+1 of window i is under way the
\* attempts 1..k of window i have ended and every earlier window is accepted or
\* skipped, and the ledger lists its entries in that order (non-decreasing
\* window index, attempt numbers 1, 2, ... within a window).
C17_SequentialOrder ==
    /\ Ledger # <<>> => Ledger[1].attempt = 1
    /\ \A k \in 1..(Len(Ledger) - 1) :
          IF Ledger[k+1].chunkIndex = Ledger[k].chunkIndex
          THEN Ledger[k+1].attempt = Ledger[k].attempt + 1
          ELSE /\ Ledger[k+1].chunkIndex > Ledger[k].chunkIndex
               /\ Ledger[k+1].attempt = 1
    /\ \A k \in DOMAIN Ledger : Ledger[k].chunkIndex <= i
    /\ (pc = "attempt" \/ CallInFlight) =>
          /\ {Ledger[k].attempt : k \in EntriesOf(i)} = 1..attempt
          /\ Cardinality(EntriesOf(i)) = attempt
          /\ \A w \in Windows : w < i => WindowSettled(w)

\* the second window is under way after two attempts of the first
C17_Witness ==
    /\ CallInFlight /\ i = 1 /\ attempt = 1
    /\ Len(Ledger) = 3
    /\ Ledger[1].chunkIndex = 0 /\ Ledger[2].chunkIndex = 0 /\ Ledger[2].attempt = 2
    /\ Ledger[3].chunkIndex = 1

\* the window under assembly has segments only with a start the parser accepts
Assemblable == pc = "assemble" /\ ~\E k \in DOMAIN chunkData : ParseTimeThrows(chunkData[k])

\* C18: for window i with absolute start S_i, every assembled segment's start
\* is its window-local start plus S_i, its end (when it has one) is its
\* window-local end plus S_i, and so start <= end is kept.
C18_StartAndEndOffset ==
    [][Assemblable =>
         LET S == CurChunk.startTime
             n == Len(fullTranscript)
         IN /\ Len(fullTranscript') = n + Len(chunkData)
            /\ \A k \in DOMAIN chunkData :
                 LET a == fullTranscript'[n + k]
                     l == chunkData[k]
                 IN /\ ParseParts(a.start) = ParseParts(l.start) + S
                    /\ HasField(l, "end") =>
                         /\ HasField(a, "end")
                         /\ ParseParts(a.end) = ParseParts(l.end) + S
                         /\ ParseParts(l.start) <= ParseParts(l.end)
                              => ParseParts(a.start) <= ParseParts(a.end)]_vars

\* the assembled segments that carry a time (the placeholder's start is "ERROR")
Timed(k) == fullTranscript[k] # Placeholder

\* C19: the assembled transcript has monotonically non-decreasing absolute
\* start times over the whole sequence, the boundary between consecutive
\* overlapping windows included.
C19_MonotonicStarts ==
    \A k \in 1..(Len(fullTranscript) - 1) :
        (Timed(k) /\ Timed(k + 1)) =>
            ParseParts(fullTranscript[k].start) <= ParseParts(fullTranscript[k + 1].start)

\* the document or the assembled transcript marks window w as failed
MarkedAsFailed(w) ==
    \/ \E k \in DOMAIN transcriptionFile.body :
          transcriptionFile.body[k] = ErrorMarker(w + 1)
    \/ Placeholders # {}

\* the document after its completing rewrite
DocumentComplete == pc = "done" /\ transcriptionFile.marker = <<>>

\* C20: for every window given up after all its attempts failed, the progress
\* document after its completing rewrite, or the assembled transcript, holds an
\* error marker for that window, also when the window is the last one.
C20_FailureMarkerInFinalDocument ==
    DocumentComplete => \A w \in Windows : GivenUp(w) => MarkedAsFailed(w)

(***************************************************************************)
(* validator.ts called on its own: validateTranscript,                      *)
(* buildSpeakerNormalizationMap and normalizeTranscriptSpeakers applied to  *)
(* arguments drawn from small sets.                                         *)
(***************************************************************************)
MaxSpeakers == 2
MaxSegments == 2

UnitLabels == {"Speaker 1", "Speaker 2", "Alice", "Bob"}

SeqsUpTo(S, n) == UNION {[1..k -> S] : k \in 0..n}
\* arrays without a repeated element: stats.speakers comes from a Set, and
\* knownSpeakers only ever receives labels it does not include
DistinctSeqs(S, n) ==
    {sq \in SeqsUpTo(S, n) : \A a, b \in DOMAIN sq : a # b => sq[a] # sq[b]}

UnitSpeakerLists == DistinctSeqs(UnitLabels, MaxSpeakers)

\* transcripts that differ in their speakers only
UnitSpeakerTranscripts ==
    {[k \in DOMAIN sq |-> SegE(sq[k], <<0, k>>, <<0, k + 1>>, "t")] :
        sq \in SeqsUpTo(UnitLabels, MaxSegments)}

\* the maps buildSpeakerNormalizationMap returns on the lists above
UnitMaps ==
    {BuildSpeakerNormalizationMap(c, k) : c \in UnitSpeakerLists, k \in UnitSpeakerLists}

\* segments for validateTranscript: named and generic speakers, starts from
\* 00:00 to 05:00, and one segment whose start is missing
UnitSegments ==
    {Seg(sp, st, "t") : sp \in {"Alice", "Bob", "Speaker 1"},
                        st \in {<<0, 0>>, <<0, 20>>, <<2, 30>>, <<5, 0>>}}
    \cup {[speaker |-> "Alice", text |-> "t"]}

UnitTranscripts == SeqsUpTo(UnitSegments, MaxSegments)

\* the ValidationConfig values: [expectedDuration, minCoveragePercent,
\* maxGapSeconds, knownSpeakers, strictTiming]
UnitConfigs ==
    {[expectedDuration |-> e, minCoveragePercent |-> 60, maxGapSeconds |-> g,
      knownSpeakers |-> k, strictTiming |-> st] :
        e \in {40, 300}, g \in {5, 120},
        k \in {<<>>, <<"Alice">>, <<"Speaker 1">>}, st \in BOOLEAN}

UnitCalls ==
    {[fn |-> "buildSpeakerNormalizationMap", currentSpeakers |-> c, knownSpeakers |-> k] :
        c \in UnitSpeakerLists, k \in UnitSpeakerLists}
    \cup {[fn |-> "normalizeTranscriptSpeakers", transcript |-> t, speakerMap |-> m] :
        t \in UnitSpeakerTranscripts, m \in UnitMaps}
    \cup {[fn |-> "validateTranscript", transcript |-> t, config |-> c] :
        t \in UnitTranscripts, c \in UnitConfigs}

UnitFrame ==
    /\ UNCHANGED <<planVars, ctlVars, memVars, diskVars, exitCode, faults>>
    /\ UNCHANGED <<validationRetries, enableTimingCheck, force, preferredModel, ctxVars>>
    /\ UNCHANGED answers

UnitInit ==
    /\ unitCall \in UnitCalls
    /\ unitResult = <<>>
    /\ duration = 0 /\ chunkDuration = 0 /\ overlapDuration = 0
    /\ splitPc = "idle" /\ splitI = 0 /\ splitChunks = <<>> /\ audioDir = {}
    /\ RunIdle

\* buildSpeakerNormalizationMap(currentSpeakers, knownSpeakers)
UnitBuildMap ==
    /\ unitCall.fn = "buildSpeakerNormalizationMap" /\ unitResult = <<>>
    /\ unitResult' =
         <<BuildSpeakerNormalizationMap(unitCall.currentSpeakers, unitCall.knownSpeakers)>>
    /\ UNCHANGED unitCall
    /\ UnitFrame

\* normalizeTranscriptSpeakers applied to the transcript, then to its own result
UnitNormalize ==
    /\ unitCall.fn = "normalizeTranscriptSpeakers" /\ Len(unitResult) < 2
    /\ unitResult' =
         Append(unitResult,
                NormalizeTranscriptSpeakers(
                    IF unitResult = <<>> THEN unitCall.transcript
                    ELSE unitResult[Len(unitResult)],
                    unitCall.speakerMap))
    /\ UNCHANGED unitCall
    /\ UnitFrame

\* validateTranscript(transcript, config)
UnitValidate ==
    /\ unitCall.fn = "validateTranscript" /\ unitResult = <<>>
    /\ LET c == unitCall.config IN
       unitResult' =
         <<ValidateTranscript(unitCall.transcript, c.expectedDuration,
                              c.minCoveragePercent, c.maxGapSeconds,
                              c.knownSpeakers, c.strictTiming)>>
    /\ UNCHANGED unitCall
    /\ UnitFrame

UnitNext == UnitBuildMap \/ UnitNormalize \/ UnitValidate

SpecUnit == UnitInit /\ [][UnitNext]_vars

(***************************************************************************)
(* Content analysis (phase 1) and its description.                         *)
(***************************************************************************)
ContextCalls == {"images", "audio", "merge"}

\* an error of a phase 1 sub-step is in flight to its catch block
ContextErrorInFlight == ctxPc \in ContextCalls /\ thrown # ""

\* the merge failed: both descriptions exist and the audio one was taken
MergeFailed ==
    /\ imageDescription # "" /\ audioDescription # ""
    /\ finalDescription = audioDescription

\* C21: a failure of a completion-service sub-step of content analysis (image
\* analysis, audio analysis, merge), quota-class with every model exhausted or
\* any other error, never aborts the run: the step that handles the error keeps
\* the run going with exit code unset, the run never reaches the fatal-error
\* exit, the transcription loop can start once phase 1 and the split are over,
\* and a finished run has taken up every window.
C21_ContextFailureNeverAborts ==
    /\ [][ContextErrorInFlight =>
            /\ exitCode' = -1 /\ pc' = "split" /\ thrown' = ""
            /\ ctxPc' \in {"split", "merge", "done"}]_vars
    /\ [](exitCode # 1 /\ pc # "aborted")
    /\ [](ctxPc = "done" /\ splitPc = "done" /\ pc = "split" => ENABLED SplitDone)
    /\ [](pc = "done" => exitCode = 0 /\ \A w \in Windows : Processed(w))

\* a video run whose merge call threw has finished: the audio description is
\* the context of the prompts of window 0
C21_Witness ==
    /\ pc = "done" /\ exitCode = 0
    /\ isVideo /\ MergeFailed
    /\ EntriesOf(0) # {}
    /\ \A k \in EntriesOf(0) : Ledger[k].prompt.description = audioDescription

\* C22: after content analysis the description used as shared context of every
\* window is never the empty string: once phase 1 is over finalDescription is
\* non-empty, and so is the description of every prompt in the ledger.
C22_DescriptionNeverEmpty ==
    /\ ctxPc = "done" => finalDescription # ""
    /\ \A k \in DOMAIN Ledger : Ledger[k].prompt.description # ""

\* whenever a sub-step threw or image or audio analysis answered with nothing,
\* the description is a non-empty one (the other description or the placeholder)
C22_PlaceholderUnlessMergeEmpty ==
    ctxPc = "done" /\ finalDescription = "" =>
        imageDescription # "" /\ audioDescription # ""

(***************************************************************************)
(* Speaker reconciliation and validation.                                  *)
(***************************************************************************)
UnitReturned(fn) == unitCall # <<>> /\ unitCall.fn = fn /\ unitResult # <<>>

\* C23: buildSpeakerNormalizationMap maps the k-th generic label of the window
\* to the k-th named known speaker, both in first-seen order, for k up to the
\* length of the shorter list, and maps nothing else; without a generic label
\* or without a named known speaker the map is empty; speakers {"Speaker 1"}
\* with known speakers {"Alice","Bob"} give exactly {"Speaker 1" -> "Alice"}.
C23_SpeakerMapByPosition ==
    UnitReturned("buildSpeakerNormalizationMap") =>
        LET m == unitResult[1]
            generic == SelectGeneric(unitCall.currentSpeakers)
            named == SelectNamed(unitCall.knownSpeakers)
            n == Min(Len(generic), Len(named))
        IN /\ DOMAIN m = {generic[k] : k \in 1..n}
           /\ \A k \in 1..n : m[generic[k]] = named[k]
           /\ (generic = <<>> \/ named = <<>>) => DOMAIN m = {}
           /\ (unitCall.currentSpeakers = <<"Speaker 1">>
                 /\ unitCall.knownSpeakers = <<"Alice", "Bob">>)
                => m = [g \in {"Speaker 1"} |-> "Alice"]

\* scenario D has been computed
C23_Witness ==
    /\ UnitReturned("buildSpeakerNormalizationMap")
    /\ unitCall.currentSpeakers = <<"Speaker 1">>
    /\ unitCall.knownSpeakers = <<"Alice", "Bob">>
    /\ unitResult = <<[g \in {"Speaker 1"} |-> "Alice"]>>

\* C24: applying a reconciliation map twice equals applying it once, for every
\* transcript and every map buildSpeakerNormalizationMap returns, and the only
\* field of a segment the relabelling changes is the speaker label.
C24_NormalizeIdempotent ==
    UnitReturned("normalizeTranscriptSpeakers") =>
        LET t == unitCall.transcript
            once == unitResult[1]
        IN /\ Len(once) = Len(t)
           /\ \A k \in DOMAIN t :
                /\ DOMAIN once[k] = DOMAIN t[k]
                /\ \A f \in DOMAIN t[k] \ {"speaker"} : once[k][f] = t[k][f]
                /\ once[k].speaker =
                     IF t[k].speaker \in DOMAIN unitCall.speakerMap
                     THEN unitCall.speakerMap[t[k].speaker] ELSE t[k].speaker
           /\ Len(unitResult) = 2 => unitResult[2] = once

\* a relabelling that changed a label has been applied a second time
C24_Witness ==
    /\ UnitReturned("normalizeTranscriptSpeakers")
    /\ Len(unitResult) = 2
    /\ unitResult[1] # unitCall.transcript
    /\ unitResult[2] = unitResult[1]
    /\ \E k \in DOMAIN unitCall.transcript :
        unitCall.transcript[k].speaker = "Speaker 1" /\ unitResult[2][k].speaker = "Alice"

\* the speaker labels of a transcript in first-seen order
SpeakersOf(data) == Unique([k \in DOMAIN data |-> data[k].speaker])

\* C25: after a window is accepted, knownSpeakers is its previous value followed
\* by those speaker labels of the window, as they stand after remapping, that
\* were not yet known; a generic label rewritten to a known name is not added.
C25_KnownSpeakersAfterRemapping ==
    [][pc = "received" /\ pc' = "postloop" =>
        knownSpeakers' =
            knownSpeakers \o SelectNotIn(SpeakersOf(chunkData'), Range(knownSpeakers))]_vars

\* C25, what the run does: the labels merged are those of the answer as it
\* was validated, before remapping
C25_KnownSpeakersBeforeRemapping ==
    [][pc = "received" /\ pc' = "postloop" =>
        knownSpeakers' =
            knownSpeakers \o SelectNotIn(SpeakersOf(chunkData), Range(knownSpeakers))]_vars

IssuesOfType(vr, t) == {k \in DOMAIN vr.issues : vr.issues[k].type = t}
ErrorIssues(vr) == {k \in DOMAIN vr.issues : vr.issues[k].severity = "error"}

\* C26: validateTranscript returns isValid = false exactly when some reported
\* issue has severity error; an empty segment list is invalid with the single
\* issue empty_transcript of severity error; every other combination of issues
\* (warnings only, or none) is accepted as valid.
C26_InvalidIffError ==
    UnitReturned("validateTranscript") =>
        LET vr == unitResult[1]
            t == unitCall.transcript
        IN /\ vr.isValid = FALSE <=> ErrorIssues(vr) # {}
           /\ \A k \in DOMAIN vr.issues : vr.issues[k].severity \in {"error", "warning"}
           /\ Len(t) = 0 =>
                /\ vr.isValid = FALSE
                /\ vr.issues = <<[type |-> "empty_transcript", severity |-> "error"]>>
           /\ Len(t) > 0 => IssuesOfType(vr, "empty_transcript") = {}
           /\ (ErrorIssues(vr) = {} /\ vr.issues # <<>>) => vr.isValid = TRUE

\* a transcript with two warnings and no error was accepted as valid
C26_Witness ==
    /\ UnitReturned("validateTranscript")
    /\ Len(unitCall.transcript) > 0
    /\ Len(unitResult[1].issues) >= 2
    /\ ErrorIssues(unitResult[1]) = {}
    /\ unitResult[1].isValid = TRUE

\* the start times of a transcript in seconds, as the validator reads them
StartsOf(t) == {ParseTimestamp(t[k]) : k \in DOMAIN t}

\* C27: for a non-empty transcript validateTranscript reports timing_underflow
\* exactly when (max start - min start) / expectedDuration * 100 is below
\* minCoveragePercent, with severity error under strict timing and warning
\* otherwise, and timing_gap exactly when two consecutive sorted start times
\* differ by more than maxGapSeconds; a gap above the limit or a span below the
\* minimum coverage yields at least one of the two issues.
C27_UnderflowAndGap ==
    (UnitReturned("validateTranscript") /\ Len(unitCall.transcript) > 0) =>
        LET vr == unitResult[1]
            c == unitCall.config
            starts == StartsOf(unitCall.transcript)
            span == SetMax(starts) - SetMin(starts)
            below == span * 100 < c.minCoveragePercent * c.expectedDuration
            gapAbove ==
                \E a, b \in starts :
                    /\ a < b /\ b - a > c.maxGapSeconds
                    /\ ~\E x \in starts : a < x /\ x < b
        IN /\ IssuesOfType(vr, "timing_underflow") # {} <=> below
           /\ \A k \in IssuesOfType(vr, "timing_underflow") :
                vr.issues[k].severity = IF c.strictTiming THEN "error" ELSE "warning"
           /\ IssuesOfType(vr, "timing_gap") # {} <=> gapAbove
           /\ \A k \in IssuesOfType(vr, "timing_gap") : vr.issues[k].severity = "warning"
           /\ (below \/ gapAbove) =>
                IssuesOfType(vr, "timing_underflow") \cup IssuesOfType(vr, "timing_gap") # {}

\* the validator's own test: starts 00:00 and 00:20, 40 s expected, gaps of at
\* most 5 s allowed, strict timing: both issues, the underflow as an error
C27_Witness ==
    /\ UnitReturned("validateTranscript")
    /\ StartsOf(unitCall.transcript) = {0, 20}
    /\ unitCall.config.expectedDuration = 40 /\ unitCall.config.maxGapSeconds = 5
    /\ unitCall.config.strictTiming
    /\ \E k \in IssuesOfType(unitResult[1], "timing_underflow") :
        unitResult[1].issues[k].severity = "error"
    /\ IssuesOfType(unitResult[1], "timing_gap") # {}

\* C28: validateTranscript reports speaker_inconsistency only when the known
\* speakers contain a named identity and every speaker of the window is a
\* generic placeholder; a window with at least one named speaker never gets
\* the issue.
C28_InconsistencyOnlyWhenAllGeneric ==
    (UnitReturned("validateTranscript") /\ Len(unitCall.transcript) > 0) =>
        LET vr == unitResult[1]
            speakers == SpeakersOf(unitCall.transcript)
            reported == IssuesOfType(vr, "speaker_inconsistency") # {}
        IN /\ reported =>
                /\ SelectNamed(unitCall.config.knownSpeakers) # <<>>
                /\ SelectNamed(speakers) = <<>>
           /\ SelectNamed(speakers) # <<>> => ~reported

\* C28, what the validator does: the issue is reported exactly when the known
\* speakers contain a named identity and some speaker of the window is generic
C28_InconsistencyWhenAnyGeneric ==
    (UnitReturned("validateTranscript") /\ Len(unitCall.transcript) > 0) =>
        (IssuesOfType(unitResult[1], "speaker_inconsistency") # {}
            <=> /\ SelectNamed(unitCall.config.knownSpeakers) # <<>>
                /\ SelectGeneric(SpeakersOf(unitCall.transcript)) # <<>>)

\* C29: if totalDuration <= windowLength, exactly one window is planned and it
\* is [0, totalDuration]; duration 300 s with windowLength 600 s gives the
\* single window [0,300).
C29_SingleWindow ==
    (PlanDone /\ duration <= chunkDuration) =>
        /\ splitChunks = <<[index |-> 0, startTime |-> 0, endTime |-> duration]>>
        /\ (duration = 300 /\ chunkDuration = 600) =>
              /\ NumChunks = 1
              /\ splitChunks[1].startTime = 0 /\ splitChunks[1].endTime = 300

\* scenario B has been planned
C29_Witness ==
    /\ PlanDone /\ duration = 300 /\ chunkDuration = 600
    /\ NumChunks = 1 /\ splitChunks[1].endTime = 300

(***************************************************************************)
(* ai.ts: uploadMedia called on its own. The file service reports a state  *)
(* on every getFile; the reports are drawn up front and the last one is    *)
(* repeated for as long as the caller keeps asking.                        *)
(***************************************************************************)
MaxPolls == 3

\* FileState of the service's client library
FileStates == {"STATE_UNSPECIFIED", "PROCESSING", "ACTIVE", "FAILED"}

UploadCalls ==
    {[fn |-> "uploadMedia", reports |-> r, uploadThrows |-> th] :
        r \in SeqsUpTo(FileStates, MaxPolls) \ {<<>>}, th \in BOOLEAN}

\* the state the k-th getFile reports
ReportAt(call, k) == call.reports[Min(k, Len(call.reports))]

\* the loop goes on while this holds: file.state === FileState.PROCESSING
KeepsPolling(state) == state = "PROCESSING"

UploadInit ==
    /\ unitCall \in UploadCalls
    /\ unitResult = [pc |-> "start", gets |-> 0, state |-> "none"]
    /\ duration = 0 /\ chunkDuration = 0 /\ overlapDuration = 0
    /\ splitPc = "idle" /\ splitI = 0 /\ splitChunks = <<>> /\ audioDir = {}
    /\ RunIdle

\* fileManager.uploadFile throws: catch, spinner.fail, throw error
UploadFileThrows ==
    /\ unitResult.pc = "start" /\ unitCall.uploadThrows
    /\ unitResult' = [unitResult EXCEPT !.pc = "failed"]
    /\ UNCHANGED unitCall
    /\ UnitFrame

\* uploadFile returns; let file = await this.fileManager.getFile(fileName)
UploadFirstGet ==
    /\ unitResult.pc = "start" /\ ~unitCall.uploadThrows
    /\ unitResult' = [pc |-> "loop", gets |-> 1, state |-> ReportAt(unitCall, 1)]
    /\ UNCHANGED unitCall
    /\ UnitFrame

\* one turn of while (file.state === FileState.PROCESSING): wait 2 s, getFile;
\* the model stops counting at MaxPolls
UploadPoll ==
    /\ unitResult.pc = "loop" /\ KeepsPolling(unitResult.state)
    /\ unitResult.gets < MaxPolls
    /\ unitResult' = [unitResult EXCEPT !.gets = @ + 1,
                                        !.state = ReportAt(unitCall, unitResult.gets + 1)]
    /\ UNCHANGED unitCall
    /\ UnitFrame

\* if (file.state === FileState.FAILED) throw
UploadFails ==
    /\ unitResult.pc = "loop" /\ ~KeepsPolling(unitResult.state)
    /\ unitResult.state = "FAILED"
    /\ unitResult' = [unitResult EXCEPT !.pc = "failed"]
    /\ UNCHANGED unitCall
    /\ UnitFrame

\* return fileUri
UploadReturns ==
    /\ unitResult.pc = "loop" /\ ~KeepsPolling(unitResult.state)
    /\ unitResult.state # "FAILED"
    /\ unitResult' = [unitResult EXCEPT !.pc = "returned"]
    /\ UNCHANGED unitCall
    /\ UnitFrame

UploadNext ==
    UploadFileThrows \/ UploadFirstGet \/ UploadPoll \/ UploadFails \/ UploadReturns

SpecUpload == UploadInit /\ [][UploadNext]_vars

UploadEnded == unitResult.pc \in {"returned", "failed"}

\* C30: uploadMedia is a bounded polling loop with a terminal failure state:
\* whatever the service reports, the call has ended (URI returned, or failed)
\* once MaxPolls requests for the file's state have been made, and it returns
\* the URI only when the file has reached the ACTIVE state.
C30_BoundedPolling ==
    /\ unitResult.gets >= MaxPolls =>
          (UploadEnded \/ ENABLED UploadFails \/ ENABLED UploadReturns)
    /\ unitResult.pc = "returned" => unitResult.state = "ACTIVE"

\* C30, what uploadMedia does: it asks again for as long as the service reports
\* PROCESSING, fails when the state that ends the loop is FAILED, and returns
\* the URI on any other state
C30_PollsWhileProcessing ==
    /\ (unitResult.pc = "loop" /\ unitResult.state = "PROCESSING") =>
          ~(ENABLED UploadFails \/ ENABLED UploadReturns)
    /\ unitResult.pc = "returned" => unitResult.state \in {"ACTIVE", "STATE_UNSPECIFIED"}
    /\ (unitResult.pc = "failed" /\ unitResult.gets > 0) => unitResult.state = "FAILED"

(***************************************************************************)
(* The context tail, the document and the cache across windows.            *)
(***************************************************************************)
\* tail is the trailing part of text
IsTailOf(tail, text) ==
    /\ Len(tail) <= Len(text)
    /\ tail = SubSeq(text, Len(text) - Len(tail) + 1, Len(text))

\* the step assembles the current window (no TypeError of parseTime)
AssemblesWindow == Assemblable /\ pc' = "loop"

\* the formatted text of the window being assembled
AssembledText == [k \in DOMAIN chunkData |->
                    FormatLine(AdjustSegment(chunkData[k], CurChunk.startTime))]

\* C31: the context tail in the prompt of window i+1 has at most 20 lines and
\* is the trailing part of the formatted text of window i as it was assembled,
\* and it is empty for window 0: the step that assembles window i sets the tail
\* to the last min(20, length) lines of its text, nothing else changes the tail
\* before the attempts of window i+1, every ledger entry carries the tail
\* current at its attempt, and the entries of window 0 carry an empty tail.
C31_ContextTail ==
    /\ [][AssemblesWindow =>
            /\ IsTailOf(previousTranscription', AssembledText)
            /\ Len(previousTranscription') = Min(Len(AssembledText), CONTEXT_LINES)
            /\ i' = i + 1]_vars
    /\ [][previousTranscription' # previousTranscription => AssemblesWindow]_vars
    /\ [][Len(Ledger') > Len(Ledger) =>
            Ledger'[Len(Ledger')].prompt.previousTranscription = previousTranscription]_vars
    /\ [](\A k \in DOMAIN Ledger :
            /\ Len(Ledger[k].prompt.previousTranscription) <= CONTEXT_LINES
            /\ Ledger[k].chunkIndex = 0 => Ledger[k].prompt.previousTranscription = <<>>)

\* window 0 was assembled with 21 lines and the prompt of window 1 carried
\* the last 20 of them
C31_Witness ==
    /\ Len(chunkTranscriptions) >= 1 /\ Len(chunkTranscriptions[1]) = CONTEXT_LINES + 1
    /\ \E k \in EntriesOf(1) :
        /\ Len(Ledger[k].prompt.previousTranscription) = CONTEXT_LINES
        /\ Ledger[k].prompt.previousTranscription = Tail(chunkTranscriptions[1])

\* an element of the document body that is the error marker of a failed window
IsErrorMarker(x) == Len(x) = 1 /\ "error" \in DOMAIN x[1]

\* C32: after window i of n is assembled the document shows the progress
\* marker i+1/n followed by the formatted segments of all windows assembled so
\* far in window order (the body grows by the text of window i and by nothing
\* else at that step, and only ever at its end); when the loop ends the
\* document is rewritten once more and then holds no progress marker.
C32_ProgressMarker ==
    /\ [][AssemblesWindow =>
            /\ transcriptionFile'.marker = <<i + 1, NumWindows>>
            /\ chunkTranscriptions' = Append(chunkTranscriptions, AssembledText)
            /\ transcriptionFile'.body = chunkTranscriptions']_vars
    /\ [][chunkTranscriptions' # chunkTranscriptions =>
            /\ Len(chunkTranscriptions') = Len(chunkTranscriptions) + 1
            /\ SubSeq(chunkTranscriptions', 1, Len(chunkTranscriptions)) = chunkTranscriptions
            /\ AssemblesWindow \/ IsErrorMarker(chunkTranscriptions'[Len(chunkTranscriptions')])]_vars
    /\ [][(pc = "loop" /\ pc' = "done") =>
            /\ transcriptionFile'.marker = <<>>
            /\ transcriptionFile'.body = transcriptionContent]_vars
    /\ [](pc = "done" => transcriptionFile.marker = <<>>)

\* window 1 of 2 has just been assembled: marker 2/2, both texts in the body
C32_Witness ==
    /\ pc = "loop" /\ i = 2 /\ NumWindows = 2
    /\ transcriptionFile.marker = <<2, 2>>
    /\ Len(transcriptionFile.body) = 2
    /\ \A k \in 1..2 : transcriptionFile.body[k] # <<>> /\ ~IsErrorMarker(transcriptionFile.body[k])

\* the chunk file <input>_chunk_<idx>.mp3 of the audio directory
AudioFileOf(idx) == CHOOSE f \in audioDir : f.index = idx

\* the audio file the run uploads for window c covers the range planned for c
SameWindow(c) ==
    /\ ChunkFileExists(audioDir, c.index)
    /\ AudioFileOf(c.index).startTime = c.startTime
    /\ AudioFileOf(c.index).endTime = c.endTime

\* C33: a chunk file is reused for window i only if it was produced for the
\* same window (same start and end): every planned window is paired with an
\* audio file of its own range, and a cached transcript left by an earlier run
\* is assembled for window i only when the earlier run's window i had the range
\* of this run's window i.
C33_ReusedOnlyForSameWindow ==
    /\ [](pc \notin {"idle", "split"} => \A k \in DOMAIN chunks : SameWindow(chunks[k]))
    /\ [][(LoopCacheHit /\ LeftByEarlierRun(CacheFile(i))) => SameWindow(CurChunk)]_vars

\* the result of the validation the run makes of the transcript just received
RunValidation ==
    ValidateTranscript(chunkData, ExpectedDuration, 60, 120, knownSpeakers, StrictTiming)

EntryAt(w, att) ==
    {k \in DOMAIN transcriptionProgress :
        /\ transcriptionProgress[k].chunkIndex = w
        /\ transcriptionProgress[k].attempt = att}

RetriesOptions == {c.retries : c \in RunConfigs}

\* window w is behind the loop and every attempt of it threw
EveryAttemptThrew(w) ==
    /\ w < i
    /\ EntriesOf(w) # {}
    /\ \A k \in EntriesOf(w) : Ledger[k].error # NoError

\* C35: for every configured --validation-retries value n >= 0, a window whose
\* every attempt throws is attempted exactly n + 1 times before it is given up
\* (once when n = 0).
C35_AttemptsOfConfiguredRetries ==
    \A n \in RetriesOptions :
        validationRetries = ValidationRetriesOf(n) =>
            \A w \in Windows :
                EveryAttemptThrew(w) => Cardinality(EntriesOf(w)) = n + 1

\* what the code does: the window is attempted once more than the parsed value,
\* and the parsed value of 0 is 2
C35_AttemptsOfParsedRetries ==
    \A w \in Windows :
        EveryAttemptThrew(w) => Cardinality(EntriesOf(w)) = validationRetries + 1

\* every window before window i was passed without an attempt of this run:
\* it was served from the cache
AllBeforeFromCache == i > 0 /\ \A w \in 0..(i - 1) : EntriesOf(w) = {}

\* C36: a window served from the cache leaves knownSpeakers and the ledger
\* unchanged, at the cache branch and at its assembly; knownSpeakers changes
\* only when an attempt of this run is accepted, and then only by speakers of
\* that answer; so when windows 0..k came from the cache, window k+1 is
\* validated and reconciled against an empty knownSpeakers, which holds none of
\* the speakers of windows 0..k.
C36_CacheLeavesKnownSpeakers ==
    /\ [][(LoopCacheHit \/ Assemble) =>
            UNCHANGED <<knownSpeakers, transcriptionProgress, progressFile>>]_vars
    /\ [][knownSpeakers' # knownSpeakers =>
            /\ pc = "received" /\ pc' = "postloop"
            /\ Range(knownSpeakers') \subseteq
                 Range(knownSpeakers) \cup Range(SpeakersOf(chunkData))]_vars
    /\ []((pc = "received" /\ AllBeforeFromCache) =>
            /\ knownSpeakers = <<>>
            /\ RunValidation.stats.speakers = SpeakersOf(chunkData)
            /\ ~HasIssue(RunValidation, "speaker_inconsistency"))

\* window 0 came from the cache with the speakers Alice and Bob, and window 1
\* has answered with generic labels that are about to be validated
C36_Witness ==
    /\ pc = "received" /\ i = 1 /\ AllBeforeFromCache /\ enableTimingCheck
    /\ Range(SpeakersOf(fullTranscript)) = {"Alice", "Bob"}
    /\ Range(SpeakersOf(chunkData)) = {"Speaker 1", "Speaker 2"}
    /\ knownSpeakers = <<>>

\* the formatted text of the last window that was assembled ('' when none was)
AssembledTexts == {k \in DOMAIN chunkTranscriptions : ~IsErrorMarker(chunkTranscriptions[k])}
LastAssembledText ==
    IF AssembledTexts = {} THEN <<>>
    ELSE chunkTranscriptions[CHOOSE k \in AssembledTexts : \A j \in AssembledTexts : j <= k]

\* the window loop passes over window i, whose attempts have all thrown
SkipsWindow ==
    /\ pc = "attempt" /\ attempt > validationRetries
    /\ ~validationPassed /\ Len(chunkData) = 0
    /\ PostLoop

MapOfOwnSpeakers ==
    /\ UnitReturned("normalizeTranscriptSpeakers")
    /\ \E k \in UnitSpeakerLists :
          unitCall.speakerMap =
              BuildSpeakerNormalizationMap(SpeakersOf(unitCall.transcript), k)

\* C38: speaker normalization never merges two distinct speakers of one window:
\* for every window and every knownSpeakers, two segments that carried
\* different speaker labels before normalizeTranscriptSpeakers carry different
\* labels after it.
C38_NormalizationNeverMerges ==
    MapOfOwnSpeakers =>
        LET t == unitCall.transcript
            r == unitResult[1]
        IN \A a, b \in DOMAIN t :
              t[a].speaker # t[b].speaker => r[a].speaker # r[b].speaker

\* what the code keeps apart: two generic labels of one window, and two named
\* labels of one window
C38_SameKindNeverMerges ==
    MapOfOwnSpeakers =>
        LET t == unitCall.transcript
            r == unitResult[1]
        IN \A a, b \in DOMAIN t :
              (t[a].speaker # t[b].speaker
                 /\ IsGeneric(t[a].speaker) = IsGeneric(t[b].speaker))
                => r[a].speaker # r[b].speaker

\* the segments the assembly step appends to fullTranscript
Contributed == SubSeq(fullTranscript', Len(fullTranscript) + 1, Len(fullTranscript'))

\* C39: for the same window plan, a run that serves window i from the cache
\* contributes the same assembled segments for window i (order, speakers, texts,
\* absolute starts) as the run that transcribed window i and wrote the entry:
\* the entry written at acceptance is the data that run assembles, relabelling
\* included, and every assembly of a window with a readable cache entry, served
\* or just written, appends that entry's segments shifted by the window's start.
C39_CachedEqualsTranscribed ==
    /\ [][(pc = "received" /\ pc' = "postloop") =>
            /\ CacheExists(i)'
            /\ CacheFile(i)' = [index |-> i, readable |-> TRUE, data |-> chunkData']]_vars
    /\ [][(pc = "postloop" /\ pc' = "assemble") => UNCHANGED <<chunkData, cacheFiles>>]_vars
    /\ [][(AssemblesWindow /\ CacheExists(i) /\ CacheFile(i).readable) =>
            Contributed = AdjustedData(CacheFile(i).data, CurChunk.startTime)]_vars

\* window 1, which starts at 09:00, was served from the entry an earlier run
\* wrote after relabelling, and its segments stand in the transcript
C39_Witness ==
    /\ pc = "loop" /\ i = 2 /\ ~force
    /\ EntriesOf(1) = {} /\ CacheExists(1)
    /\ chunks[2].startTime > 0
    /\ Len(fullTranscript) = 5
    /\ SubSeq(fullTranscript, 3, 5) = AdjustedData(CacheFile(1).data, chunks[2].startTime)
    /\ fullTranscript[3].speaker = "Alice"
    /\ ParseParts(fullTranscript[3].start) = chunks[2].startTime

PlanNext == SplitSingle \/ SplitBegin \/ SplitStep \/ SplitReturn

SpecPlan == PlanInit /\ [][PlanNext]_vars

====
